---- MODULE Spec2Model ----
(***************************************************************************)
(* ApiBox: the in-memory CacheManager (src/src/db/client.ts, the version  *)
(* with appendHourlySnapshot), the ProxyEngine that reads and fills it    *)
(* (src/unnamed/part_004) and the TaskScheduler (src/src/utils/           *)
(* scheduler.ts).  Time is the value of Date.now() in milliseconds.       *)
(***************************************************************************)
EXTENDS Integers, Sequences, FiniteSets, Bags, TLC

VARIABLES
    cache,      \* CacheManager.cache: a Map, here its entries in insertion order
    timers,     \* pending setTimeout callbacks of set(): a bag of [key, due, setAt]
    now,        \* Date.now()
    lastOp,     \* the last CacheManager call that returned, with what it returned
    calls,      \* ProxyEngine.proxyRequest calls suspended at `await fetch`
    lastRun,    \* the last proxyRequest call that returned or threw, with its outcome
    inOrder,    \* every appendHourlySnapshot so far came with a timestamp not before the last stored point's
    objs,       \* every ScheduledTask object addTask has created, in creation order
    tasks,      \* TaskScheduler.tasks: id -> the task object registered under it
    intervals,  \* TaskScheduler.intervals: the ids marked as started
    isRunning,  \* TaskScheduler.isRunning
    wakeups,    \* pending setTimeout(scheduleNextRun, ..) callbacks: a bag of [task, due]
    running,    \* handler invocations not yet settled, and settled ones whose finally callback is queued
    fired,      \* per task object: the nextRun slot of every handler invocation so far
    streak,     \* per task object: failed invocations settled since the last successful one
    dbEnabled,  \* Deno.env.get("ENABLE_DB_PERSISTENCE") === "true"
    forwards,   \* the async blocks of appendHourlySnapshot suspended at their first await: a sequence of [key, p, last, live]
    db,         \* the rows of the table forex_history, in insertion order
    queries,    \* the getHistory calls suspended at their first await: a sequence of [key, start, end, items, live]
    nextCollect \* when the timer of startHourlyCollector is due next, NoTimer before it is started

proxyVars == <<calls, lastRun, nextCollect>>
schedVars == <<objs, tasks, intervals, isRunning, wakeups, running, fired, streak>>
dbVars == <<dbEnabled, forwards, db, queries>>
storeVars == <<cache, timers, lastOp, inOrder, proxyVars, dbVars>>
vars == <<cache, timers, now, lastOp, calls, lastRun, inOrder,
          objs, tasks, intervals, isRunning, wakeups, running, fired, streak,
          dbEnabled, forwards, db, queries, nextCollect>>

----------------------------------------------------------------------------
(* Bounds of the model *)

\* CACHE_MAX_SIZE of the environment (1000 by default, 5 in the unit tests)
maxSize == 2
\* CACHE_DEFAULT_TTL of the environment, in ms
defaultTtl == 2
\* the clock stops advancing here
MaxNow == 3
\* pending expiry timers
MaxTimers == 1
\* proxyRequest calls in flight at once
MaxCalls == 2
\* cacheDuration of forex.quote, in ms (5000 in the default configuration)
quoteCacheDuration == 2
\* the history scenarios: appends in any order while the series is shorter than
\* MaxFree, then one point per hour up to hour MaxFillHour, then one more append
MaxFree == 3
MaxFillHour == 172
\* the scheduler scenarios: task objects created, handler invocations per task
\* object, pending wake-ups, unsettled invocations, and the hours the clock runs
MaxObjs == 1
MaxRuns == 3
MaxWakeups == 2
MaxRunning == 2
MaxHours == 2
MaxForwards == 2
MaxRows == 2
MaxQueries == 1
MaxSeries == 3

----------------------------------------------------------------------------
(* Values *)

HistKey == "forex:history:XAU"
PlainKeys == {"k1", "k2"}
Keys == PlainKeys \cup {HistKey}

\* a cached value: a JSON scalar/object (v) or an array (items)
Scalar(v) == [isArray |-> FALSE, v |-> v, items |-> <<>>]
ArrayOf(items) == [isArray |-> TRUE, v |-> "", items |-> items]
\* JavaScript null, what get() returns for a miss
Null == Scalar("null")
\* the values the store is written with directly
Bodies == {"a"}

\* an optional numeric argument: <<>> is undefined, <<n>> is the number n
Undefined == <<>>
TtlArgs == {Undefined, <<-1>>, <<0>>, <<1>>}

\* JavaScript truthiness of an optional number (undefined and 0 are falsy)
TruthyNum(x) == x /= Undefined /\ x[1] /= 0
\* JavaScript truthiness of a string
TruthyStr(s) == s /= ""

----------------------------------------------------------------------------
(* The Map<string, CacheItem> *)

CacheKeys(c) == {c[i].key : i \in DOMAIN c}
MapHas(c, k) == k \in CacheKeys(c)
MapIndex(c, k) == CHOOSE i \in DOMAIN c : c[i].key = k
MapGet(c, k) == c[MapIndex(c, k)]
MapDelete(c, k) == SelectSeq(c, LAMBDA e : e.key /= k)
\* Map.prototype.set: an existing key keeps its place, a new key goes last
MapSet(c, k, data, ts) ==
    LET item == [key |-> k, data |-> data, timestamp |-> ts]
    IN  IF MapHas(c, k)
        THEN [i \in DOMAIN c |-> IF c[i].key = k THEN item ELSE c[i]]
        ELSE Append(c, item)

----------------------------------------------------------------------------
(* CacheManager *)

\* what the last call returned: ret for get(), flag for has() and delete(),
\* count for cleanup()
\* removed: the keys the call took out of the store; snapshot: the point
\* appendHourlySnapshot() was called with
NoSnapshot == [timestamp |-> -1, value |-> ""]
\* args: the arguments generateKey() was called with
NoOp == [op |-> "init", ret |-> Null, flag |-> FALSE, count |-> 0, removed |-> {},
         snapshot |-> NoSnapshot, history |-> <<>>, args |-> <<>>]

\* mutant of EvictOldest: the newest entry is the victim
EvictNewest(c) ==
    IF Len(c) >= maxSize
    THEN IF c /= <<>> /\ TruthyStr(c[Len(c)].key) THEN MapDelete(c, c[Len(c)].key) ELSE c
    ELSE c

\* set(), lines 394-400: a full store loses its first key before the write
EvictOldest(c) ==
    IF Len(c) >= maxSize
    THEN IF c /= <<>> /\ TruthyStr(c[1].key) THEN MapDelete(c, c[1].key) ELSE c
    ELSE c

\* set(), lines 394-407: the entries after the call
setEntries(c, key, data, t) == MapSet(EvictOldest(c), key, data, t)

\* mutant of SchedulesExpiry: every supplied ttl arms a timer
SchedulesExpiryIfGiven(ttl) == ttl /= Undefined

\* set(), lines 409-414: the expiry timer, if any
SchedulesExpiry(ttl) == TruthyNum(ttl) /\ ttl[1] > 0
setTimers(tm, key, ttl, t) ==
    IF SchedulesExpiry(ttl)
    THEN tm (+) SetToBag({[key |-> key, due |-> t + ttl[1], setAt |-> t]})
    ELSE tm

\* get()/cleanup(): const cacheTtl = ttl || this.defaultTtl
cacheTtl(ttl) == IF TruthyNum(ttl) THEN ttl[1] ELSE defaultTtl

\* mutant of IsExpired: an entry expires as soon as its age reaches the TTL
IsExpiredAtTtl(item, ttl, t) == cacheTtl(ttl) > 0 /\ t - item.timestamp >= cacheTtl(ttl)

\* get()/cleanup(): cacheTtl > 0 && now - item.timestamp > cacheTtl
IsExpired(item, ttl, t) == cacheTtl(ttl) > 0 /\ t - item.timestamp > cacheTtl(ttl)

\* get(): the value returned
getRet(c, key, ttl, t) ==
    IF ~MapHas(c, key) THEN Null
    ELSE IF IsExpired(MapGet(c, key), ttl, t) THEN Null
    ELSE MapGet(c, key).data

\* mutant of getEntries: an expired entry is left in the store
getEntriesKeep(c, key, ttl, t) == c

\* get(): the entries after the call (an expired entry is deleted)
getEntries(c, key, ttl, t) ==
    IF MapHas(c, key) /\ IsExpired(MapGet(c, key), ttl, t)
    THEN MapDelete(c, key)
    ELSE c

\* has(): this.get(key, ttl) !== null
hasRet(c, key, ttl, t) == getRet(c, key, ttl, t) /= Null

\* cleanup(): the entries after the call
cleanupEntries(c, ttl, t) == SelectSeq(c, LAMBDA e : ~IsExpired(e, ttl, t))

\* hour bucket of a timestamp: Math.floor(timestamp / 3600000)
HourMs == 3600000
HourOf(ts) == ts \div HourMs

\* historyMaxEntries = 24 * 7
historyMaxEntries == 24 * 7

\* appendHourlySnapshot(), lines 427-431: the series already stored
existingHistory(c, key) ==
    IF MapHas(c, key) /\ MapGet(c, key).data.isArray
    THEN MapGet(c, key).data.items
    ELSE <<>>

\* mutant of pushOrOverwrite: the same-hour check is missing
pushAlways(history, snapshot) == Append(history, snapshot)

\* mutant of pushOrOverwrite: unshift instead of push
pushFront(history, snapshot) ==
    IF history /= <<>> /\ HourOf(history[Len(history)].timestamp) = HourOf(snapshot.timestamp)
    THEN [history EXCEPT ![Len(history)] = snapshot]
    ELSE <<snapshot>> \o history

\* mutant of pushOrOverwrite: the hour of the first point is compared
overwriteByFirstHour(history, snapshot) ==
    IF history /= <<>> /\ HourOf(history[1].timestamp) = HourOf(snapshot.timestamp)
    THEN [history EXCEPT ![Len(history)] = snapshot]
    ELSE Append(history, snapshot)

\* mutant of pushOrOverwrite: a non-empty series only has its last point replaced
overwriteAlways(history, snapshot) ==
    IF history /= <<>>
    THEN [history EXCEPT ![Len(history)] = snapshot]
    ELSE Append(history, snapshot)

\* appendHourlySnapshot(), lines 433-442: overwrite the last point or push
pushOrOverwrite(history, snapshot) ==
    IF history /= <<>> /\ HourOf(history[Len(history)].timestamp) = HourOf(snapshot.timestamp)
    THEN [history EXCEPT ![Len(history)] = snapshot]
    ELSE Append(history, snapshot)

\* mutant of trimHistory: history.slice(0, max), the oldest points are kept
trimKeepOldest(history) ==
    IF Len(history) > historyMaxEntries
    THEN SubSeq(history, 1, historyMaxEntries)
    ELSE history

\* appendHourlySnapshot(), lines 444-447: history.slice(length - max)
trimHistory(history) ==
    IF Len(history) > historyMaxEntries
    THEN SubSeq(history, Len(history) - historyMaxEntries + 1, Len(history))
    ELSE history

\* appendHourlySnapshot(), lines 427-451: the entries after the call; the
\* series is written with Map.set directly, not through set()
appendEntries(c, key, snapshot, t) ==
    MapSet(c, key,
           ArrayOf(trimHistory(pushOrOverwrite(existingHistory(c, key), snapshot))), t)

set(key, data, ttl) ==
    /\ SchedulesExpiry(ttl) => BagCardinality(timers) < MaxTimers
    /\ cache' = setEntries(cache, key, data, now)
    /\ timers' = setTimers(timers, key, ttl, now)
    /\ lastOp' = [NoOp EXCEPT !.op = "set",
                              !.removed = CacheKeys(cache) \ CacheKeys(cache')]
    /\ UNCHANGED <<now, inOrder, proxyVars, schedVars, dbVars>>

get(key, ttl) ==
    /\ cache' = getEntries(cache, key, ttl, now)
    /\ lastOp' = [NoOp EXCEPT !.op = "get",
                              !.ret = getRet(cache, key, ttl, now)]
    /\ UNCHANGED <<timers, now, inOrder, proxyVars, schedVars, dbVars>>

\* has(): this.get(key, ttl) !== null
has(key, ttl) ==
    /\ cache' = getEntries(cache, key, ttl, now)
    /\ lastOp' = [NoOp EXCEPT !.op = "has", !.flag = hasRet(cache, key, ttl, now)]
    /\ UNCHANGED <<timers, now, inOrder, proxyVars, schedVars, dbVars>>

delete(key) ==
    /\ cache' = MapDelete(cache, key)
    /\ lastOp' = [NoOp EXCEPT !.op = "delete", !.flag = MapHas(cache, key)]
    /\ UNCHANGED <<timers, now, inOrder, proxyVars, schedVars, dbVars>>

clear ==
    /\ cache' = <<>>
    /\ lastOp' = [NoOp EXCEPT !.op = "clear"]
    /\ UNCHANGED <<timers, now, inOrder, proxyVars, schedVars, dbVars>>

cleanup(ttl) ==
    /\ cache' = cleanupEntries(cache, ttl, now)
    /\ lastOp' = [NoOp EXCEPT !.op = "cleanup",
                              !.count = Len(cache) - Len(cache')]
    /\ UNCHANGED <<timers, now, inOrder, proxyVars, schedVars, dbVars>>

\* the snapshot does not go back in time from the last stored point
KeepsOrder(c, key, snapshot) ==
    LET history == existingHistory(c, key)
    IN  history = <<>> \/ history[Len(history)].timestamp <= snapshot.timestamp

\* existing && Array.isArray(existing.data), lines 428 and 491
storesArray(c, key) == MapHas(c, key) /\ MapGet(c, key).data.isArray

\* An async block or a suspended getHistory holds a reference to the array it
\* read, not a copy. appendHourlySnapshot(key, snapshot), lines 427-447,
\* changes the stored array in place (push, or assignment to the last index),
\* so a holder of that array sees the change; after slice(), or when the
\* entry is missing, the store holds another array and the holder's array
\* stays as it is. `live` says that the held array is the stored one.
heldAfter(h, c, key, snapshot) ==
    IF h.key = key /\ h.live
    THEN IF storesArray(c, key)
         THEN [h EXCEPT !.items = pushOrOverwrite(h.items, snapshot),
                        !.live = Len(pushOrOverwrite(h.items, snapshot)) <= historyMaxEntries]
         ELSE [h EXCEPT !.live = FALSE]
    ELSE h

\* the same for an async block, which reads only the last element of its
\* array (line 460); `last` is that element
forwardAfter(f, c, key, snapshot) ==
    IF f.key = key /\ f.live
    THEN IF storesArray(c, key)
         THEN [f EXCEPT !.last = snapshot,
                        !.live = Len(pushOrOverwrite(existingHistory(c, key), snapshot))
                                     <= historyMaxEntries]
         ELSE [f EXCEPT !.live = FALSE]
    ELSE f

\* appendHourlySnapshot(), lines 454-455: the async block starts and suspends
\* at `await loadDbModule()`; the last element of its array is the snapshot.
\* Without ENABLE_DB_PERSISTENCE the block returns at line 456 and touches
\* nothing, so it is not kept.
forwardsAfter(fw, enabled, c, key, snapshot) ==
    IF ~enabled THEN fw
    ELSE Append([i \in DOMAIN fw |-> forwardAfter(fw[i], c, key, snapshot)],
                [key |-> key, p |-> snapshot, last |-> snapshot, live |-> TRUE])

appendHourlySnapshot(key, snapshot) ==
    /\ dbEnabled => Len(forwards) < MaxForwards
    /\ cache' = appendEntries(cache, key, snapshot, now)
    /\ lastOp' = [NoOp EXCEPT !.op = "appendHourlySnapshot", !.snapshot = snapshot]
    /\ inOrder' = (inOrder /\ KeepsOrder(cache, key, snapshot))
    /\ forwards' = forwardsAfter(forwards, dbEnabled, cache, key, snapshot)
    /\ queries' = [i \in DOMAIN queries |-> heldAfter(queries[i], cache, key, snapshot)]
    /\ UNCHANGED <<timers, now, proxyVars, schedVars, dbEnabled, db>>

\* the callback of set()'s setTimeout: this.cache.delete(key)
expiryTimer(tm) ==
    /\ BagIn(tm, timers)
    /\ tm.due <= now
    /\ timers' = timers (-) SetToBag({tm})
    /\ cache' = MapDelete(cache, tm.key)
    /\ UNCHANGED <<now, lastOp, inOrder, proxyVars, schedVars, dbVars>>

\* time passes
Tick ==
    /\ now < MaxNow
    /\ now' = now + 1
    /\ UNCHANGED <<cache, timers, lastOp, inOrder, proxyVars, schedVars, dbVars>>

----------------------------------------------------------------------------
(* ProxyEngine *)

\* JSON.stringify of a Record<string, string>, keys in insertion order;
\* the record is a sequence of <<name, value>> pairs
\* a value that holds a quote: the text of a second pair
QuotedValue == "XAU\",\"currency\":\"USD"
\* JSON.stringify of a string, without the surrounding quotes: a quote inside
\* gets a backslash; the other strings used hold nothing to escape
Quote(str) ==
    IF str = QuotedValue THEN "XAU\\\",\\\"currency\\\":\\\"USD" ELSE str
RECURSIVE StringifyPairs(_)
StringifyPairs(ps) ==
    IF ps = <<>> THEN ""
    ELSE "\"" \o Quote(ps[1][1]) \o "\":\"" \o Quote(ps[1][2]) \o "\""
         \o (IF Len(ps) > 1 THEN "," ELSE "") \o StringifyPairs(Tail(ps))
Stringify(ps) == "{" \o StringifyPairs(ps) \o "}"

\* CacheManager.generateKey
generateKey(apiName, endpoint, pathParams, queryParams) ==
    apiName \o ":" \o endpoint \o ":" \o Stringify(pathParams) \o ":" \o Stringify(queryParams)

\* a call of the static method; its arguments are kept with what it returned
generateKeyCall(apiName, endpoint, pathParams, queryParams) ==
    /\ lastOp' = [NoOp EXCEPT !.op = "generateKey",
                              !.args = <<apiName, endpoint, pathParams, queryParams>>,
                              !.ret = Scalar(generateKey(apiName, endpoint,
                                                         pathParams, queryParams))]
    /\ UNCHANGED <<cache, timers, now, inOrder, proxyVars, schedVars, dbVars>>

\* ConfigManager.getDefaultConfigs: cacheDuration of each endpoint of each API
Configs ==
    [forex |-> [quote |-> quoteCacheDuration], httpbin |-> [get |-> 0]]
\* this.configManager.getConfig(apiName) is defined
HasConfig(apiName) == apiName \in DOMAIN Configs
\* config.endpoints[endpoint] is defined
HasEndpoint(apiName, endpoint) == endpoint \in DOMAIN Configs[apiName]
\* mutant of cacheDurationOf: every endpoint is cached
cacheDurationAlways(req) == quoteCacheDuration

\* endpointConfig.cacheDuration || 0
cacheDurationOf(req) == Configs[req.apiName][req.endpoint]

\* params.pathParams[name], "" when the parameter is missing
RECURSIVE Lookup(_, _)
Lookup(ps, name) ==
    IF ps = <<>> THEN ""
    ELSE IF ps[1][1] = name THEN ps[1][2] ELSE Lookup(Tail(ps), name)

\* mutant of ToUpperCase: the name is compared as it was given
ToSameCase(str) == str

\* String.prototype.toUpperCase on the instrument names used
ToUpperCase(str) ==
    CASE str = "xau" -> "XAU"
      [] str = "eur" -> "EUR"
      [] OTHER -> str

Request(apiName, endpoint, pathParams) ==
    [apiName |-> apiName, endpoint |-> endpoint,
     pathParams |-> pathParams, queryParams |-> <<>>]
Requests ==
    { Request("forex", "quote", << <<"instrument", "XAU">>, <<"currency", "USD">> >>),
      Request("forex", "quote", << <<"instrument", "EUR">>, <<"currency", "USD">> >>),
      Request("httpbin", "get", <<>>),
      Request("forex", "history", <<>>),
      Request("weather", "get", <<>>) }

cacheKeyOf(req) ==
    generateKey(req.apiName, req.endpoint, req.pathParams, req.queryParams)

\* the upstream's answers: a JSON body with a success status, or a failure
\* (network error, status outside 2xx, unparsable body)
ResponseBodies == {"a", "b"}
\* a JSON array body; the proxy reads only data[0], kept in v
\* ("undefined" for an empty array)
BodyArray(first) == [isArray |-> TRUE, v |-> first, items |-> <<>>]
Responses ==
    {[ok |-> TRUE, body |-> Scalar(b)] : b \in ResponseBodies}
        \cup {[ok |-> FALSE, body |-> Null]}

Slots == 1 .. MaxCalls
\* the slot of the hourly collector's call; `running` of collector.ts is its busy flag
CollectorSlot == 0
CallSlots == Slots \cup {CollectorSlot}
\* no setTimeout or setInterval of the collector is pending
NoTimer == 0 - 1
Idle == [busy |-> FALSE, req |-> Request("", "", <<>>)]
NoRun == [outcome |-> "none", req |-> Request("", "", <<>>), data |-> Null, fetched |-> FALSE]

\* proxyRequest, lines 102-140: the series entry after a successful response
\* for forex/quote/XAU (sample is the body, or its first element)
IsTrackedRequest(req) ==
    /\ req.apiName = "forex"
    /\ req.endpoint = "quote"
    /\ TruthyStr(Lookup(req.pathParams, "instrument"))
    /\ ToUpperCase(Lookup(req.pathParams, "instrument")) = "XAU"
histKeyOf(req) == "forex:history:" \o ToUpperCase(Lookup(req.pathParams, "instrument"))
\* Array.isArray(data) ? data[0] : data
sampleOf(data) == data.v
\* if (sample): a JSON value that is not 0, "", false, null, and not a missing element
TruthySample(v) == v \notin {"0", "", "false", "null", "undefined"}
\* proxyRequest, lines 103-112: the conditions under which a snapshot is taken
TakesSnapshot(req, data) == IsTrackedRequest(req) /\ TruthySample(sampleOf(data))
\* mutant of historyEntries: the series stored meanwhile is not read back
historyEntriesUnread(c, req, data, t) ==
    IF TakesSnapshot(req, data)
    THEN MapSet(c, histKeyOf(req), ArrayOf(<<[timestamp |-> t, value |-> sampleOf(data)]>>), t)
    ELSE c
historyEntries(c, req, data, t) ==
    IF TakesSnapshot(req, data)
    THEN appendEntries(c, histKeyOf(req), [timestamp |-> t, value |-> sampleOf(data)], t)
    ELSE c

\* proxyRequest, lines 41-67: from the call to the cache hit, the thrown
\* configuration error or the suspension at `await fetch`
proxyRequestCall(r, req) ==
    /\ ~calls[r].busy
    /\ IF ~HasConfig(req.apiName) \/ ~HasEndpoint(req.apiName, req.endpoint)
       THEN /\ lastRun' = [NoRun EXCEPT !.outcome = "ConfigNotFound", !.req = req]
            /\ UNCHANGED <<cache, lastOp, calls>>
       ELSE IF cacheDurationOf(req) > 0
       THEN LET ttl == <<cacheDurationOf(req)>>
                cachedData == getRet(cache, cacheKeyOf(req), ttl, now)
            IN  /\ cache' = getEntries(cache, cacheKeyOf(req), ttl, now)
                /\ lastOp' = [NoOp EXCEPT !.op = "get", !.ret = cachedData]
                /\ IF cachedData /= Null
                   THEN /\ lastRun' = [NoRun EXCEPT !.outcome = "ok", !.req = req,
                                                    !.data = cachedData]
                        /\ UNCHANGED calls
                   ELSE /\ calls' = [calls EXCEPT ![r] = [busy |-> TRUE, req |-> req]]
                        /\ UNCHANGED lastRun
       ELSE /\ calls' = [calls EXCEPT ![r] = [busy |-> TRUE, req |-> req]]
            /\ UNCHANGED <<cache, lastOp, lastRun>>
    /\ UNCHANGED <<timers, now, inOrder, schedVars, dbVars>>

\* a call made by a route handler
proxyRequest(r, req) == proxyRequestCall(r, req) /\ UNCHANGED nextCollect

\* mutant of responseEntries: the body is stored whatever the status
responseEntriesUnchecked(c, req, resp, t) ==
    historyEntries(IF cacheDurationOf(req) > 0
                   THEN setEntries(c, cacheKeyOf(req), resp.body, t)
                   ELSE c,
                   req, resp.body, t)

\* proxyRequest, lines 85-120: the entries after the upstream's answer; a
\* failure throws at line 86, 91 or 94, before the store is touched
responseEntries(c, req, resp, t) ==
    IF ~resp.ok THEN c
    ELSE historyEntries(IF cacheDurationOf(req) > 0
                        THEN setEntries(c, cacheKeyOf(req), resp.body, t)
                        ELSE c,
                        req, resp.body, t)

\* ConfigManager.getDefaultConfigs: the parameters each endpoint declares as required
RequiredParams ==
    [forex |-> [quote |-> {[name |-> "instrument", type |-> "path"],
                           [name |-> "currency", type |-> "path"]}],
     httpbin |-> [get |-> {}]]

\* paramName in params.pathParams
HasParam(ps, name) == \E i \in DOMAIN ps : ps[i][1] = name

\* validateParams(), lines 215-263: valid; the callers here send no headers
validateParams(req) ==
    /\ HasConfig(req.apiName)
    /\ HasEndpoint(req.apiName, req.endpoint)
    /\ \A param \in RequiredParams[req.apiName][req.endpoint] :
           CASE param.type = "path" -> HasParam(req.pathParams, param.name)
             [] param.type = "query" -> HasParam(req.queryParams, param.name)
             [] param.type = "header" -> HasParam(<<>>, param.name)
             [] OTHER -> FALSE

\* proxyRequest, lines 85-146: the upstream answered; cache, history, return
fetchResponse(r, resp) ==
    /\ calls[r].busy
    /\ LET req == calls[r].req
           d == cacheDurationOf(req)
           cached == IF d > 0 THEN setEntries(cache, cacheKeyOf(req), resp.body, now)
                     ELSE cache
       IN  IF ~resp.ok
           THEN /\ lastRun' = [NoRun EXCEPT !.outcome = "TransportError", !.req = req,
                                            !.fetched = TRUE]
                /\ cache' = responseEntries(cache, req, resp, now)
                /\ UNCHANGED <<timers, lastOp, inOrder>>
           ELSE /\ SchedulesExpiry(<<d>>) => BagCardinality(timers) < MaxTimers
                /\ cache' = responseEntries(cache, req, resp, now)
                /\ timers' = IF d > 0 THEN setTimers(timers, cacheKeyOf(req), <<d>>, now)
                             ELSE timers
                /\ lastOp' = IF TakesSnapshot(req, resp.body)
                             THEN [NoOp EXCEPT !.op = "appendHourlySnapshot",
                                               !.snapshot = [timestamp |-> now,
                                                             value |-> sampleOf(resp.body)]]
                             ELSE IF d > 0
                             THEN [NoOp EXCEPT !.op = "set",
                                               !.removed = CacheKeys(cache) \ CacheKeys(cached)]
                             ELSE lastOp
                /\ inOrder' = IF TakesSnapshot(req, resp.body)
                              THEN inOrder /\ KeepsOrder(cached, histKeyOf(req),
                                                         [timestamp |-> now, value |-> sampleOf(resp.body)])
                              ELSE inOrder
                /\ lastRun' = [NoRun EXCEPT !.outcome = "ok", !.req = req,
                                            !.data = resp.body, !.fetched = TRUE]
    /\ calls' = [calls EXCEPT ![r] = Idle]
    /\ LET req == calls[r].req
           cached == IF cacheDurationOf(req) > 0
                     THEN setEntries(cache, cacheKeyOf(req), resp.body, now)
                     ELSE cache
           snapshot == [timestamp |-> now, value |-> sampleOf(resp.body)]
       IN  IF resp.ok /\ TakesSnapshot(req, resp.body)
           THEN /\ dbEnabled => Len(forwards) < MaxForwards
                /\ forwards' = forwardsAfter(forwards, dbEnabled, cached, histKeyOf(req), snapshot)
                /\ queries' = [i \in DOMAIN queries |->
                                  heldAfter(queries[i], cached, histKeyOf(req), snapshot)]
           ELSE UNCHANGED <<forwards, queries>>
    /\ UNCHANGED <<now, schedVars, dbEnabled, db, nextCollect>>

\* RouteHandler, handler.ts: the 404 answers for an unknown API or endpoint,
\* then validateParams with its 400 answer, then proxyRequest
handleApiRequest(r, req) ==
    IF validateParams(req)
    THEN proxyRequest(r, req)
    ELSE /\ ~calls[r].busy
         /\ lastRun' = [NoRun EXCEPT
                           !.outcome = IF HasConfig(req.apiName)
                                          /\ HasEndpoint(req.apiName, req.endpoint)
                                       THEN "ValidationError"
                                       ELSE "NotFound",
                           !.req = req]
         /\ UNCHANGED <<cache, timers, now, lastOp, calls, nextCollect, inOrder, schedVars, dbVars>>

\* an hour passes while requests are in flight
HourPasses ==
    /\ now < HourMs
    /\ now' = now + HourMs
    /\ UNCHANGED <<cache, timers, lastOp, inOrder, proxyVars, schedVars, dbVars>>

----------------------------------------------------------------------------
(* TaskScheduler *)

TaskIds == {"forex-xau-usd-hourly"}
HalfHour == 30 * 60 * 1000
IntervalArgs == {HalfHour, HourMs}
\* options.enabled, options.maxErrors: absent or given
EnabledArgs == {Undefined, <<TRUE>>, <<FALSE>>}
MaxErrorsArgs == {Undefined, <<1>>, <<2>>}
\* opt ?? dflt
OrElse(opt, dflt) == IF opt = Undefined THEN dflt ELSE opt[1]
DefaultMaxErrors == 5
\* the longest wait between two checks of the loop
CheckMs == 60000
\* mutant of Min: the loop waits for the whole remaining time
WholeWait(a, b) == a
Min(a, b) == IF a <= b THEN a ELSE b
\* mutant of NextHour: an hour from now, minutes kept
HourFromNow(t) == t + HourMs

\* nextHour.setHours(now.getHours() + 1, 0, 0, 0), for a zone whose offset is whole hours
NextHour(t) == (t \div HourMs + 1) * HourMs

NoTask == 0
\* the slot of an invocation that did not come from the scheduling loop
NoSlot == -1

\* the scheduler's state, as its methods read and change it
Sched ==
    [objs |-> objs, tasks |-> tasks, intervals |-> intervals,
     wakeups |-> wakeups, running |-> running, fired |-> fired]

\* runTask(), lines 507-516: up to `await task.handler()`
runTask(S, o, slot, loop, t) ==
    IF ~S.objs[o].enabled
    THEN S
    ELSE [S EXCEPT !.objs[o].lastRun = <<t>>,
                   !.running = @ (+) SetToBag({[task |-> o, slot |-> slot, loop |-> loop,
                                                stage |-> "handler"]}),
                   !.fired[o] = Append(@, slot)]

\* the closure scheduleNextRun of startTask(), lines 378-397
scheduleNextRun(S, o, t) ==
    IF ~S.objs[o].enabled
    THEN S
    ELSE LET timeUntilNext == S.objs[o].nextRun - t
         IN  IF timeUntilNext <= 0
             THEN runTask(S, o, S.objs[o].nextRun, TRUE, t)
             ELSE [S EXCEPT !.wakeups =
                       @ (+) SetToBag({[task |-> o, due |-> t + Min(timeUntilNext, CheckMs)]})]

\* startTask(), lines 358-408; addTask always sets nextRun, so line 374 never runs
startTaskIn(S, id, t) ==
    IF S.tasks[id] = NoTask \/ id \in S.intervals
    THEN S
    ELSE LET o == S.tasks[id]
             looping == scheduleNextRun([S EXCEPT !.objs[o].enabled = TRUE], o, t)
         IN  [looping EXCEPT !.intervals = @ \cup {id}]

\* mutant of stopTaskIn: the task is unmarked and stays enabled
unmarkTaskIn(S, id) == [S EXCEPT !.intervals = @ \ {id}]

\* stopTask(), lines 413-424: the pending setTimeout is not cleared
stopTaskIn(S, id) ==
    LET unmarked == [S EXCEPT !.intervals = @ \ {id}]
    IN  IF S.tasks[id] /= NoTask
        THEN [unmarked EXCEPT !.objs[S.tasks[id]].enabled = FALSE]
        ELSE unmarked

\* mutant of scheduleNextExecution: nextRun stays as it was
keepNextRun(task, t) == task.nextRun

\* scheduleNextExecution(), lines 484-502: the nextRun it assigns
scheduleNextExecution(task, t) ==
    IF task.intervalMs >= HourMs THEN NextHour(t) ELSE t + task.intervalMs

\* runTask(), line 531
breakerTripsLate(task) == task.errorCount > task.maxErrors
breakerTrips(task) == task.errorCount >= task.maxErrors

\* start(), lines 438-442; startTask touches only the state of its own id, so
\* the order of the iteration does not matter
RECURSIVE startAll(_, _, _)
startAll(S, ids, t) ==
    IF ids = {}
    THEN S
    ELSE LET id == CHOOSE i \in ids : TRUE
         IN  startAll(IF S.objs[S.tasks[id]].enabled THEN startTaskIn(S, id, t) ELSE S,
                      ids \ {id}, t)

\* stop(), lines 459-461
RECURSIVE stopAll(_, _)
stopAll(S, ids) ==
    IF ids = {}
    THEN S
    ELSE LET id == CHOOSE i \in ids : TRUE
         IN  stopAll(stopTaskIn(S, id), ids \ {id})

\* the scenarios stay within their bounds
Fits(S) ==
    /\ BagCardinality(S.wakeups) <= MaxWakeups
    /\ BagCardinality(S.running) <= MaxRunning
    /\ \A o \in DOMAIN S.fired : Len(S.fired[o]) <= MaxRuns

Becomes(S) ==
    /\ Fits(S)
    /\ objs' = S.objs
    /\ tasks' = S.tasks
    /\ intervals' = S.intervals
    /\ wakeups' = S.wakeups
    /\ running' = S.running
    /\ fired' = S.fired

\* a settled runTask whose finally callback has not run yet: the callback is a
\* microtask, it runs before any timer
FinallyQueued == \E r \in BagToSet(running) : r.stage = "finally"

addTask(id, intervalMs, options) ==
    /\ Len(objs) < MaxObjs
    /\ ~FinallyQueued
    /\ LET nextRun == IF options.alignToHour /\ intervalMs >= HourMs
                      THEN NextHour(now)
                      ELSE now + intervalMs
           task == [id |-> id, intervalMs |-> intervalMs,
                    enabled |-> OrElse(options.enabled, TRUE),
                    errorCount |-> 0,
                    maxErrors |-> OrElse(options.maxErrors, DefaultMaxErrors),
                    nextRun |-> nextRun, lastRun |-> Undefined,
                    \* not a field of ScheduledTask: the rule addTask applied,
                    \* which the object does not keep
                    aligned |-> options.alignToHour /\ intervalMs >= HourMs]
           o == Len(objs) + 1
           added == [Sched EXCEPT !.objs = Append(@, task), !.tasks[id] = o,
                                  !.fired = Append(@, <<>>)]
       IN  /\ Becomes(IF options.runImmediately /\ task.enabled
                      THEN runTask(added, o, NoSlot, FALSE, now)
                      ELSE added)
           /\ streak' = Append(streak, 0)
    /\ UNCHANGED <<isRunning, now, storeVars>>

removeTask(id) ==
    /\ tasks[id] /= NoTask
    /\ ~FinallyQueued
    /\ Becomes([stopTaskIn(Sched, id) EXCEPT !.tasks[id] = NoTask])
    /\ UNCHANGED <<isRunning, streak, now, storeVars>>

startTask(id) ==
    /\ tasks[id] /= NoTask
    /\ id \notin intervals
    /\ ~FinallyQueued
    /\ Becomes(startTaskIn(Sched, id, now))
    /\ UNCHANGED <<isRunning, streak, now, storeVars>>

stopTask(id) ==
    /\ ~FinallyQueued
    /\ Becomes(stopTaskIn(Sched, id))
    /\ UNCHANGED <<isRunning, streak, now, storeVars>>

start ==
    /\ ~isRunning
    /\ ~FinallyQueued
    /\ isRunning' = TRUE
    /\ Becomes(startAll(Sched, {id \in TaskIds : tasks[id] /= NoTask}, now))
    /\ UNCHANGED <<streak, now, storeVars>>

\* stop(), lines 452-462: what a call leaves of the tasks and their loops; it
\* returns at once when start() has not been called since the last stop()
stopped == IF ~isRunning THEN Sched ELSE stopAll(Sched, intervals)

\* a call that returns at line 454 changes nothing and is no step
stop ==
    /\ isRunning
    /\ ~FinallyQueued
    /\ isRunning' = FALSE
    /\ Becomes(stopped)
    /\ UNCHANGED <<streak, now, storeVars>>

\* a setTimeout(scheduleNextRun, ..) callback runs
wakeUp(w) ==
    /\ BagIn(w, wakeups)
    /\ w.due <= now
    /\ ~FinallyQueued
    /\ Becomes(scheduleNextRun([Sched EXCEPT !.wakeups = @ (-) SetToBag({w})], w.task, now))
    /\ UNCHANGED <<isRunning, streak, now, storeVars>>

\* runTask(), lines 516-536: the handler's promise settles
handlerSettled(r, ok) ==
    /\ BagIn(r, running)
    /\ r.stage = "handler"
    /\ LET o == r.task
           settled == [Sched EXCEPT !.running =
                          (@ (-) SetToBag({r}))
                          (+) (IF r.loop THEN SetToBag({[r EXCEPT !.stage = "finally"]})
                               ELSE EmptyBag)]
           counted == [settled EXCEPT !.objs[o].errorCount = @ + 1]
       IN  /\ Becomes(IF ok
                      THEN [settled EXCEPT !.objs[o].errorCount = 0]
                      ELSE IF breakerTrips(counted.objs[o])
                      THEN stopTaskIn([counted EXCEPT !.objs[o].enabled = FALSE],
                                      objs[o].id)
                      ELSE counted)
           /\ streak' = [streak EXCEPT ![o] = IF ok THEN 0 ELSE @ + 1]
    /\ UNCHANGED <<isRunning, now, storeVars>>

\* the finally callback of lines 386-392
afterRun(r) ==
    /\ BagIn(r, running)
    /\ r.stage = "finally"
    /\ LET o == r.task
           done == [Sched EXCEPT !.running = @ (-) SetToBag({r})]
       IN  Becomes(IF objs[o].enabled
                   THEN scheduleNextRun(
                            [done EXCEPT !.objs[o].nextRun =
                                             scheduleNextExecution(objs[o], now)],
                            o, now)
                   ELSE done)
    /\ UNCHANGED <<isRunning, streak, now, storeVars>>

\* time passes
advanceClock ==
    /\ now < MaxHours * HourMs
    /\ ~FinallyQueued
    /\ now' = now + HalfHour
    /\ UNCHANGED <<schedVars, storeVars>>

----------------------------------------------------------------------------
(* Specifications *)

----------------------------------------------------------------------------
(* Persistent Store: write-behind and merged history *)

RemoveAt(q, i) == SubSeq(q, 1, i - 1) \o SubSeq(q, i + 1, Len(q))

\* key.split(":")
SplitKey(key) == IF key = HistKey THEN <<"forex", "history", "XAU">> ELSE <<key>>
\* parts[2] || parts[1] || "XAU"
instrumentOf(key) ==
    LET parts == SplitKey(key)
    IN  IF Len(parts) >= 3 /\ parts[3] /= "" THEN parts[3]
        ELSE IF Len(parts) >= 2 /\ parts[2] /= "" THEN parts[2]
        ELSE "XAU"

\* insertSnapshot(), line 50: value === undefined ? null : value, as JSON
jsonOf(value) == IF value = "undefined" THEN "null" ELSE value

\* insertSnapshot(), lines 51-56: the row added to forex_history
insertedRow(instrument, timestamp, value) ==
    [instrument |-> instrument, timestamp |-> timestamp, value |-> jsonOf(value)]

\* how the steps after `await loadDbModule()` end: the row is inserted; the
\* module did not load; there is no client (DATABASE_URL unset, or connect
\* failed); the INSERT or SELECT was rejected
StoreOutcomes == {"ok", "loadFails", "noClient", "queryFails"}

\* appendHourlySnapshot(), lines 455-472: the async block resumes, reads
\* history[history.length - 1] and inserts it. The awaits between the read
\* and the INSERT change nothing the block reads, so they are part of this step.
forwardRuns(i, outcome) ==
    /\ i \in DOMAIN forwards
    /\ outcome = "ok" => Len(db) < MaxRows
    /\ LET f == forwards[i]
           snapshotToWrite == f.last
       IN  db' = IF outcome = "ok"
                 THEN Append(db, insertedRow(instrumentOf(f.key), snapshotToWrite.timestamp,
                                             snapshotToWrite.value))
                 ELSE db
    /\ forwards' = RemoveAt(forwards, i)
    /\ UNCHANGED <<cache, timers, now, lastOp, inOrder, proxyVars, schedVars,
                   dbEnabled, queries>>

\* start !== undefined, h.timestamp >= start; end !== undefined, h.timestamp <= end
InRange(h, startMs, endMs) ==
    /\ startMs = Undefined \/ h.timestamp >= startMs[1]
    /\ endMs = Undefined \/ h.timestamp <= endMs[1]

\* history.sort((a, b) => a.timestamp - b.timestamp): a stable sort
RECURSIVE sortByTimestamp(_)
sortByTimestamp(h) ==
    IF h = <<>> THEN <<>>
    ELSE LET rest == sortByTimestamp(Tail(h))
             k == Cardinality({i \in DOMAIN rest : rest[i].timestamp < Head(h).timestamp})
         IN  SubSeq(rest, 1, k) \o <<Head(h)>> \o SubSeq(rest, k + 1, Len(rest))

\* getHistory(), lines 499-506, 514-520, 551-557: the in-memory result
memoryHistory(memHistory, startMs, endMs) ==
    sortByTimestamp(SelectSeq(memHistory, LAMBDA h : InRange(h, startMs, endMs)))

\* getHistory() of the class without persistence, lines 236-257: the value
\* returned. filter() makes a new array; without start and end `history` is
\* the stored array and sort() orders that array itself.
syncHistory(c, key, startMs, endMs) ==
    IF ~storesArray(c, key) THEN <<>>
    ELSE sortByTimestamp(SelectSeq(MapGet(c, key).data.items,
                                   LAMBDA h : InRange(h, startMs, endMs)))

\* the same call, lines 241-256: the entries after it
syncEntries(c, key, startMs, endMs) ==
    IF storesArray(c, key) /\ startMs = Undefined /\ endMs = Undefined
    THEN [c EXCEPT ![MapIndex(c, key)].data.items = sortByTimestamp(@)]
    ELSE c

\* map.set(r.timestamp, {timestamp, value}) on a Map kept as its values in insertion order
setPoint(map, r) ==
    IF \E i \in DOMAIN map : map[i].timestamp = r.timestamp
    THEN [i \in DOMAIN map |->
             IF map[i].timestamp = r.timestamp
             THEN [timestamp |-> r.timestamp, value |-> r.value]
             ELSE map[i]]
    ELSE Append(map, [timestamp |-> r.timestamp, value |-> r.value])
RECURSIVE setPoints(_, _)
setPoints(map, rows) ==
    IF rows = <<>> THEN map ELSE setPoints(setPoint(map, Head(rows)), Tail(rows))

\* mutant of mergedHistory: the in-memory points are written after the rows
mergedMemoryLast(memHistory, dbRows, startMs, endMs) ==
    sortByTimestamp(SelectSeq(setPoints(setPoints(<<>>, dbRows), memHistory),
                              LAMBDA h : InRange(h, startMs, endMs)))

\* getHistory(), lines 531-548: merge by timestamp, filter, sort
mergedHistory(memHistory, dbRows, startMs, endMs) ==
    sortByTimestamp(SelectSeq(setPoints(setPoints(<<>>, memHistory), dbRows),
                              LAMBDA h : InRange(h, startMs, endMs)))

\* queryHistory(), lines 118-126: a value that arrives as a string is parsed
\* if it parses; the values here are JSON objects and arrive as they were stored
rowValue(val) == val

\* queryHistory(), lines 99-127: the rows of the instrument inside the range,
\* ORDER BY ts ASC; rows with equal ts come in an order the database chooses
queryHistory(rows, instrument, startMs, endMs) ==
    LET matching == {i \in DOMAIN rows : /\ rows[i].instrument = instrument
                                         /\ InRange(rows[i], startMs, endMs)}
        n == Cardinality(matching)
        orders == {f \in [1 .. n -> matching] :
                      \A a, b \in 1 .. n :
                          a < b => /\ f[a] /= f[b]
                                   /\ rows[f[a]].timestamp <= rows[f[b]].timestamp}
    IN  {[k \in 1 .. n |-> [timestamp |-> rows[f[k]].timestamp,
                            value |-> rowValue(rows[f[k]].value)]] : f \in orders}

\* getHistory(): what the call can return once it resumes, by how the store answers
historyResults(q, rows, outcome) ==
    IF outcome = "loadFails"
    THEN {memoryHistory(q.items, q.start, q.end)}
    ELSE IF outcome = "ok"
    THEN {mergedHistory(q.items, dbRows, q.start, q.end) :
              dbRows \in queryHistory(rows, instrumentOf(q.key), q.start, q.end)}
    ELSE {mergedHistory(q.items, <<>>, q.start, q.end)}

\* getHistory(), lines 488-511: up to the return without persistence, or to
\* the suspension at `await loadDbModule()` holding the stored array
getHistory(key, startMs, endMs) ==
    /\ IF ~dbEnabled
       THEN /\ lastOp' = [NoOp EXCEPT !.op = "getHistory",
                                      !.history = memoryHistory(existingHistory(cache, key),
                                                                startMs, endMs)]
            /\ UNCHANGED queries
       ELSE /\ Len(queries) < MaxQueries
            /\ queries' = Append(queries, [key |-> key, start |-> startMs, end |-> endMs,
                                           items |-> existingHistory(cache, key),
                                           live |-> storesArray(cache, key)])
            /\ UNCHANGED lastOp
    /\ UNCHANGED <<cache, timers, now, inOrder, proxyVars, schedVars,
                   dbEnabled, forwards, db>>

\* getHistory() of the class without persistence, lines 236-257. That class
\* starts no async block and has no suspended reader.
getHistorySync(key, startMs, endMs) ==
    /\ cache' = syncEntries(cache, key, startMs, endMs)
    /\ lastOp' = [NoOp EXCEPT !.op = "getHistorySync",
                              !.history = syncHistory(cache, key, startMs, endMs)]
    /\ UNCHANGED <<timers, now, inOrder, proxyVars, schedVars, dbVars>>

\* getHistory(), lines 511-557: the call resumes, queries and merges. The
\* in-memory array is read after the last await, so the query and the merge
\* are one step.
historyResumes(i, outcome) ==
    /\ i \in DOMAIN queries
    /\ \E history \in historyResults(queries[i], db, outcome) :
           lastOp' = [NoOp EXCEPT !.op = "getHistory", !.history = history]
    /\ queries' = RemoveAt(queries, i)
    /\ UNCHANGED <<cache, timers, now, inOrder, proxyVars, schedVars,
                   dbEnabled, forwards, db>>

Constructed ==
    /\ cache = <<>>
    /\ timers = EmptyBag
    /\ now = 0
    /\ lastOp = NoOp
    /\ calls = [r \in CallSlots |-> Idle]
    /\ nextCollect = NoTimer
    /\ lastRun = NoRun
    /\ inOrder = TRUE
    /\ objs = <<>>
    /\ tasks = [id \in TaskIds |-> NoTask]
    /\ intervals = {}
    /\ isRunning = FALSE
    /\ wakeups = EmptyBag
    /\ running = EmptyBag
    /\ fired = <<>>
    /\ streak = <<>>
    /\ forwards = <<>>
    /\ db = <<>>
    /\ queries = <<>>

\* ENABLE_DB_PERSISTENCE is not set
Init == Constructed /\ dbEnabled = FALSE

\* the Cache Store under every call of its interface
Next ==
    \/ \E k \in Keys, v \in Bodies, ttl \in TtlArgs : set(k, Scalar(v), ttl)
    \/ \E k \in Keys, ttl \in TtlArgs : get(k, ttl)
    \/ \E k \in Keys, ttl \in TtlArgs : has(k, ttl)
    \/ \E k \in Keys : delete(k)
    \/ clear
    \/ \E ttl \in TtlArgs : cleanup(ttl)
    \/ \E v \in Bodies : appendHourlySnapshot(HistKey, [timestamp |-> now, value |-> v])
    \/ \E tm \in BagToSet(timers) : expiryTimer(tm)
    \/ Tick

Spec == Init /\ [][Next]_vars

\* the same with time passing and the event loop running every timer that is due
SpecLive ==
    /\ Init
    /\ [][Next]_vars
    /\ WF_vars(Tick)
    /\ WF_vars(\E tm \in BagToSet(timers) : expiryTimer(tm))

\* the Proxy Executor: concurrent proxyRequest calls over the shared store
ProxyNext ==
    \/ \E r \in Slots, req \in Requests : proxyRequest(r, req)
    \/ \E r \in Slots, resp \in Responses : fetchResponse(r, resp)
    \/ \E tm \in BagToSet(timers) : expiryTimer(tm)
    \/ Tick
    \/ HourPasses

SpecProxy == Init /\ [][ProxyNext]_vars

\* the Proxy Executor over bodies of every shape: an object, an array, an
\* empty array, the number 0, and instrument names in either case
ShapeRequests ==
    { Request("forex", "quote", << <<"instrument", "XAU">>, <<"currency", "USD">> >>),
      Request("forex", "quote", << <<"instrument", "xau">>, <<"currency", "USD">> >>),
      Request("forex", "quote", << <<"instrument", "EUR">>, <<"currency", "USD">> >>),
      Request("httpbin", "get", <<>>) }
ShapeResponses ==
    {[ok |-> TRUE, body |-> b] :
        b \in {Scalar("a"), BodyArray("b"), BodyArray("undefined"), Scalar("0")}}
        \cup {[ok |-> FALSE, body |-> Null]}
ShapeNext ==
    \/ \E r \in Slots, req \in ShapeRequests : proxyRequest(r, req)
    \/ \E r \in Slots, resp \in ShapeResponses : fetchResponse(r, resp)
    \/ \E tm \in BagToSet(timers) : expiryTimer(tm)
    \/ Tick
    \/ HourPasses

SpecShapes == Init /\ [][ShapeNext]_vars

\* the Proxy Executor called through the route and called directly, as the
\* hourly collector calls it, with and without the required parameters
ParamRequests ==
    { Request("forex", "quote", << <<"instrument", "XAU">>, <<"currency", "USD">> >>),
      Request("forex", "quote", << <<"instrument", "XAU">> >>),
      Request("forex", "quote", <<>>),
      Request("weather", "get", <<>>) }
ParamNext ==
    \/ \E r \in Slots, req \in ParamRequests : handleApiRequest(r, req)
    \/ \E r \in Slots, req \in ParamRequests : proxyRequest(r, req)
    \/ \E r \in Slots, resp \in Responses : fetchResponse(r, resp)
    \/ \E tm \in BagToSet(timers) : expiryTimer(tm)
    \/ Tick

SpecParams == Init /\ [][ParamNext]_vars

\* the hourly collector, collector.ts: what doCollect passes to proxyRequest
CollectorRequest ==
    Request("forex", "quote", << <<"instrument", "XAU">>, <<"currency", "USD">> >>)

\* startHourlyCollector(), lines 33-41: the setTimeout until the next whole hour
startHourlyCollector ==
    /\ nextCollect = NoTimer
    /\ nextCollect' = NextHour(now)
    /\ UNCHANGED <<cache, timers, now, lastOp, calls, lastRun, inOrder, schedVars, dbVars>>

\* the callback of that setTimeout and of the setInterval it starts: doCollect(),
\* lines 13-31, up to the return of proxyRequest or its suspension at `await fetch`;
\* a tick that finds `running` set returns at line 14
collectorTimer ==
    /\ nextCollect /= NoTimer
    /\ nextCollect <= now
    /\ nextCollect' = now + HourMs
    /\ IF calls[CollectorSlot].busy
       THEN UNCHANGED <<cache, timers, now, lastOp, calls, lastRun, inOrder,
                        schedVars, dbVars>>
       ELSE proxyRequestCall(CollectorSlot, CollectorRequest)

\* time passes: the first two milliseconds of each hour and the last one
\* before the next
CollectHours == 2
Elapses ==
    /\ now < CollectHours * HourMs + 1
    /\ now' = IF now % HourMs = 1 THEN NextHour(now) - 1 ELSE now + 1
    /\ UNCHANGED <<cache, timers, lastOp, inOrder, proxyVars, schedVars, dbVars>>

\* the collector beside external requests for the same quote and for another
CollectRequests ==
    { CollectorRequest,
      Request("forex", "quote", << <<"instrument", "EUR">>, <<"currency", "USD">> >>) }
CollectNext ==
    \/ startHourlyCollector
    \/ collectorTimer
    \/ \E r \in Slots, req \in CollectRequests : proxyRequest(r, req)
    \/ \E r \in CallSlots, resp \in Responses : fetchResponse(r, resp)
    \/ \E tm \in BagToSet(timers) : expiryTimer(tm)
    \/ Elapses

SpecCollect == Init /\ [][CollectNext]_vars

\* generateKey over names with and without a colon and over parameter maps:
\* empty, one pair, two pairs in either order, and one pair whose value reads
\* like the rest of the two-pair map
KeyApiNames == {"forex", "forex:quote", "httpbin"}
KeyEndpoints == {"quote", "quote:quote"}
KeyParams ==
    { <<>>,
      << <<"instrument", "XAU">> >>,
      << <<"instrument", "XAU">>, <<"currency", "USD">> >>,
      << <<"currency", "USD">>, <<"instrument", "XAU">> >>,
      << <<"instrument", QuotedValue>> >> }
KeyNext ==
    \E apiName \in KeyApiNames, endpoint \in KeyEndpoints,
       pathParams \in KeyParams, queryParams \in KeyParams :
        generateKeyCall(apiName, endpoint, pathParams, queryParams)

SpecKeys == Init /\ [][KeyNext]_vars

\* the History Ledger: appendHourlySnapshot calls on one key
TenMinutes == 600000
SnapshotValues == {"a", "b"}
FreeSnapshots ==
    {[timestamp |-> ts, value |-> v] :
        ts \in {0, TenMinutes, HourMs, 2 * HourMs}, v \in SnapshotValues}
series == existingHistory(cache, HistKey)
lastPoint == series[Len(series)]
FillSnapshot == [timestamp |-> (HourOf(lastPoint.timestamp) + 1) * HourMs, value |-> "a"]
TailSnapshots ==
    {[timestamp |-> ts, value |-> "b"] :
        ts \in {MaxFillHour * HourMs + TenMinutes, (MaxFillHour + 1) * HourMs,
                (MaxFillHour - 2) * HourMs}}

\* appends in any order while the series is short
appendFree(s) ==
    /\ Len(series) < MaxFree
    /\ appendHourlySnapshot(HistKey, s)

\* the next hour's point, as an hourly collection appends it
appendFill ==
    /\ series /= <<>>
    /\ HourOf(lastPoint.timestamp) < MaxFillHour
    /\ appendHourlySnapshot(HistKey, FillSnapshot)

\* one more append once the series has been filled past its capacity
appendTail(s) ==
    /\ series /= <<>>
    /\ lastPoint = [timestamp |-> MaxFillHour * HourMs, value |-> "a"]
    /\ appendHourlySnapshot(HistKey, s)

HistoryNext ==
    \/ \E s \in FreeSnapshots : appendFree(s)
    \/ appendFill
    \/ \E s \in TailSnapshots : appendTail(s)

SpecHistory == Init /\ [][HistoryNext]_vars

\* the Job Scheduler under every call of its interface, timer and completion
AddTaskOptions ==
    [enabled : EnabledArgs, maxErrors : MaxErrorsArgs,
     runImmediately : BOOLEAN, alignToHour : BOOLEAN]
SchedNext ==
    \/ \E id \in TaskIds, ms \in IntervalArgs, options \in AddTaskOptions :
           addTask(id, ms, options)
    \/ \E id \in TaskIds : removeTask(id)
    \/ \E id \in TaskIds : startTask(id)
    \/ \E id \in TaskIds : stopTask(id)
    \/ start
    \/ stop
    \/ \E w \in BagToSet(wakeups) : wakeUp(w)
    \/ \E r \in BagToSet(running), ok \in BOOLEAN : handlerSettled(r, ok)
    \/ \E r \in BagToSet(running) : afterRun(r)
    \/ advanceClock

SpecSched == Init /\ [][SchedNext]_vars

\* the Job Scheduler with jobs whose interval is two hours
LongIntervalArgs == {2 * HourMs}
LongNext ==
    \/ \E id \in TaskIds, ms \in LongIntervalArgs, options \in AddTaskOptions :
           addTask(id, ms, options)
    \/ \E id \in TaskIds : removeTask(id)
    \/ \E id \in TaskIds : startTask(id)
    \/ \E id \in TaskIds : stopTask(id)
    \/ start
    \/ stop
    \/ \E w \in BagToSet(wakeups) : wakeUp(w)
    \/ \E r \in BagToSet(running), ok \in BOOLEAN : handlerSettled(r, ok)
    \/ \E r \in BagToSet(running) : afterRun(r)
    \/ advanceClock

SpecLong == Init /\ [][LongNext]_vars

\* the Job Scheduler with jobs that are started and never stopped, while time
\* passes, due timers run and every handler settles
LiveTaskOptions ==
    [enabled : {Undefined}, maxErrors : {<<2>>},
     runImmediately : BOOLEAN, alignToHour : BOOLEAN]
LiveSchedNext ==
    \/ \E id \in TaskIds, ms \in IntervalArgs, options \in LiveTaskOptions :
           addTask(id, ms, options)
    \/ \E id \in TaskIds : startTask(id)
    \/ start
    \/ \E w \in BagToSet(wakeups) : wakeUp(w)
    \/ \E r \in BagToSet(running), ok \in BOOLEAN : handlerSettled(r, ok)
    \/ \E r \in BagToSet(running) : afterRun(r)
    \/ advanceClock

SpecSchedLive ==
    /\ Init
    /\ [][LiveSchedNext]_vars
    /\ WF_vars(\E w \in BagToSet(wakeups) : wakeUp(w))
    /\ WF_vars(\E r \in BagToSet(running), ok \in BOOLEAN : handlerSettled(r, ok))
    /\ WF_vars(\E r \in BagToSet(running) : afterRun(r))
    /\ WF_vars(advanceClock)

\* ENABLE_DB_PERSISTENCE=true
InitStore == Constructed /\ dbEnabled = TRUE

\* the History Ledger with write-behind: appends, reads and the store's answers
StoreSnapshots ==
    {[timestamp |-> 0, value |-> "a"], [timestamp |-> 0, value |-> "b"],
     [timestamp |-> HourMs, value |-> "a"]}
RangeArgs == {<<Undefined, Undefined>>, <<<<HourMs>>, Undefined>>, <<Undefined, <<0>>>>}
appendStored(s) ==
    /\ Len(series) < MaxSeries
    /\ appendHourlySnapshot(HistKey, s)
StoreNext ==
    \/ \E s \in StoreSnapshots : appendStored(s)
    \/ delete(HistKey)
    \/ \E i \in 1 .. MaxForwards, outcome \in StoreOutcomes : forwardRuns(i, outcome)
    \/ \E range \in RangeArgs : getHistory(HistKey, range[1], range[2])
    \/ \E i \in 1 .. MaxQueries, outcome \in StoreOutcomes : historyResumes(i, outcome)

SpecStore == InitStore /\ [][StoreNext]_vars

\* the History Ledger read without persistence, by either class
ReadKeys == {HistKey, "k1"}
ReadRanges == RangeArgs \cup {<<<<TenMinutes>>, <<HourMs>>>>}
ReadNext ==
    \/ \E s \in FreeSnapshots : appendFree(s)
    \/ \E k \in ReadKeys, v \in Bodies : set(k, Scalar(v), Undefined)
    \/ \E k \in ReadKeys, range \in ReadRanges : getHistory(k, range[1], range[2])
    \/ \E k \in ReadKeys, range \in ReadRanges : getHistorySync(k, range[1], range[2])

SpecRead == Init /\ [][ReadNext]_vars

----------------------------------------------------------------------------
(* Claims about the Cache Store *)

KeySeq(c) == [i \in DOMAIN c |-> c[i].key]
Range(f) == {f[i] : i \in DOMAIN f}

\* C1: whenever a set call has returned, the store holds at most maxSize
\* entries, whatever calls (set, get, has, delete, clear, cleanup,
\* appendHourlySnapshot, expiry timers) came before.
C1_SizeWithinCapacityAfterSet ==
    lastOp.op = "set" => Len(cache) <= maxSize

\* C2: a set of an absent key into a store holding exactly maxSize entries
\* removes exactly the first-inserted entry and appends the new one; into a
\* store with room it only appends (so maxSize + 1 distinct keys set into an
\* empty store leave the last maxSize of them); get and has never reorder
\* the entries, they keep the store or drop entries from it in place.
C2_EvictsOldestInserted ==
    [][ /\ (lastOp'.op = "set" /\ CacheKeys(cache') \ CacheKeys(cache) /= {}) =>
              /\ cache'[Len(cache')].key \notin CacheKeys(cache)
              /\ Len(cache) = maxSize =>
                    SubSeq(cache', 1, Len(cache') - 1) = Tail(cache)
              /\ Len(cache) < maxSize =>
                    SubSeq(cache', 1, Len(cache') - 1) = cache
        /\ lastOp'.op \in {"get", "has"} =>
              cache' = SelectSeq(cache, LAMBDA e : e \in Range(cache'))
      ]_vars

\* C2 witness: a set has just evicted the first-inserted key of a full store
C2_Witness ==
    /\ lastOp.op = "set"
    /\ lastOp.removed /= {}
    /\ Len(cache) = maxSize

----------------------------------------------------------------------------
(* Claims about the Proxy Executor *)

----------------------------------------------------------------------------
(* Claims about the History Ledger *)

\* the series capacity the specification states
ClaimedMaxPoints == 168

\* the last n elements of a sequence (all of it when it is shorter)
LastN(q, n) == IF Len(q) <= n THEN q ELSE SubSeq(q, Len(q) - n + 1, Len(q))
\* a sequence without its last element
Front(q) == IF q = <<>> THEN <<>> ELSE SubSeq(q, 1, Len(q) - 1)

OnePointPerHour(h) ==
    \A i, j \in DOMAIN h : i /= j => HourOf(h[i].timestamp) /= HourOf(h[j].timestamp)
Ascending(h) ==
    \A i \in DOMAIN h : i < Len(h) => h[i].timestamp <= h[i + 1].timestamp

\* C4 as stated: after any appendHourlySnapshot calls, timestamps in any
\* order, the stored series has at most one point per hour bucket.
C4_OnePointPerHourAnyOrder == OnePointPerHour(series)

\* C4 amended: when every call's timestamp is not before the last stored
\* point's, the stored series has at most one point per hour bucket.
C4_OnePointPerHourInOrder == inOrder => OnePointPerHour(series)

\* C4 witness: in-order calls, one of them a same-hour overwrite (0 then
\* 0:10), have built a series of several hours
C4_Witness ==
    /\ inOrder
    /\ Len(series) = 3
    /\ series[1].timestamp = TenMinutes

\* C5 as stated: after every appendHourlySnapshot call, timestamps in any
\* order, the stored series is ascending by timestamp.
C5_AscendingAnyOrder == Ascending(series)

\* C5 amended: when every call's timestamp is not before the last stored
\* point's, the stored series is ascending by timestamp.
C5_AscendingInOrder == inOrder => Ascending(series)

\* C5 witness: in-order calls have filled the series to its capacity
C5_Witness ==
    /\ inOrder
    /\ Len(series) = ClaimedMaxPoints
    /\ series[1].timestamp < series[Len(series)].timestamp

\* C6: after every appendHourlySnapshot call the series has at most 168
\* points, and it is the last 168 points of the untrimmed series (the old
\* series with the snapshot pushed, or with its last point replaced).
C6_TrimKeepsNewest ==
    [][ lastOp'.op = "appendHourlySnapshot" =>
          LET snap == lastOp'.snapshot
          IN  /\ Len(series') <= ClaimedMaxPoints
              /\ \/ series' = LastN(Append(series, snap), ClaimedMaxPoints)
                 \/ series' = LastN(Append(Front(series), snap), ClaimedMaxPoints)
      ]_vars

\* C6 witness: the series is full and its first hours have been dropped
C6_Witness ==
    /\ Len(series) = ClaimedMaxPoints
    /\ HourOf(series[1].timestamp) >= MaxFree
    /\ HourOf(lastPoint.timestamp) = MaxFillHour

\* C7: a snapshot in the hour bucket of the last stored point replaces that
\* point: same length, same earlier points, the snapshot last.
C7_SameHourOverwrites ==
    [][ ( /\ lastOp'.op = "appendHourlySnapshot"
          /\ series /= <<>>
          /\ HourOf(lastPoint.timestamp) = HourOf(lastOp'.snapshot.timestamp) ) =>
            /\ Len(series') = Len(series)
            /\ series' = Append(Front(series), lastOp'.snapshot)
      ]_vars

\* C7 witness: the last point of a full series was overwritten by a later
\* snapshot of its hour
C7_Witness ==
    /\ Len(series) = ClaimedMaxPoints
    /\ lastPoint = [timestamp |-> MaxFillHour * HourMs + TenMinutes, value |-> "b"]
    /\ HourOf(series[Len(series) - 1].timestamp) = MaxFillHour - 1

\* C8: with timestamps that never go back, a snapshot of another hour than
\* the last stored point's is added after all earlier points (the oldest
\* dropped beyond 168), one of the same hour takes the place of the last
\* point, and the series has strictly ascending hour buckets: one point per
\* hour appended, in time order, carrying the last snapshot of its hour.
C8_NewHourAppends ==
    [][ /\ ( /\ lastOp'.op = "appendHourlySnapshot"
             /\ inOrder'
             /\ (series = <<>> \/
                 HourOf(lastPoint.timestamp) /= HourOf(lastOp'.snapshot.timestamp)) ) =>
               series' = LastN(Append(series, lastOp'.snapshot), ClaimedMaxPoints)
        /\ ( /\ lastOp'.op = "appendHourlySnapshot"
             /\ inOrder'
             /\ series /= <<>>
             /\ HourOf(lastPoint.timestamp) = HourOf(lastOp'.snapshot.timestamp) ) =>
               series' = Append(Front(series), lastOp'.snapshot)
        /\ inOrder' =>
               \A i \in DOMAIN series' : i < Len(series') =>
                   HourOf(series'[i].timestamp) < HourOf(series'[i + 1].timestamp)
      ]_vars

\* C8 witness: three snapshots of three different hours, appended in time
\* order, are all stored
C8_Witness ==
    /\ inOrder
    /\ Len(series) = 3
    /\ series[1].timestamp = 0
    /\ series[2].timestamp = HourMs
    /\ series[3].timestamp = 2 * HourMs

----------------------------------------------------------------------------
(* Claims about the Job Scheduler *)

\* steps of one task object, read off the state change
Settled(o) ==
    \E r \in BagToSet(running) :
        /\ r.task = o
        /\ r.stage = "handler"
        /\ CopiesIn(r, running') < CopiesIn(r, running)
Failed(o) == Settled(o) /\ streak'[o] = streak[o] + 1
Succeeded(o) == Settled(o) /\ streak'[o] = 0
Invoked(o) == Len(fired'[o]) > Len(fired[o])
\* startTask went past its two early returns for the task object
Restarted(o) ==
    /\ tasks[objs[o].id] = o
    /\ objs[o].id \notin intervals
    /\ objs[o].id \in intervals'

\* C9: a failure that makes maxErrors or more failures in a row (none of the
\* job's invocations succeeded in between) leaves the job disabled and not
\* marked as started, a failure that makes fewer leaves enabled as it was; a
\* success sets errorCount to 0; the handler is invoked only while the job is
\* enabled, and a disabled job becomes enabled only by startTask.
C9_CircuitBreaker ==
    [][\A o \in DOMAIN objs :
          /\ Failed(o) =>
                IF streak'[o] >= objs[o].maxErrors
                THEN ~objs'[o].enabled /\ objs[o].id \notin intervals'
                ELSE objs'[o].enabled = objs[o].enabled /\ intervals' = intervals
          /\ Succeeded(o) =>
                objs'[o].errorCount = 0 /\ objs'[o].enabled = objs[o].enabled
          /\ Invoked(o) => objs'[o].enabled /\ (objs[o].enabled \/ Restarted(o))
          /\ (~objs[o].enabled /\ objs'[o].enabled) => Restarted(o)]_vars

\* the second of two failures in a row has disabled a job with maxErrors = 2
\* while a wake-up of its loop is still pending
C9_Witness ==
    \E o \in DOMAIN objs :
        /\ objs[o].maxErrors = 2
        /\ streak[o] = 2
        /\ objs[o].errorCount = 2
        /\ Len(fired[o]) = 2
        /\ ~objs[o].enabled
        /\ \E w \in BagToSet(wakeups) : w.task = o

\* the scheduling loops of a task object that will go on: pending wake-ups and
\* invocations made by the loop that have not rescheduled yet, while enabled
LoopsOf(o) ==
    LET waiting == {w \in BagToSet(wakeups) : w.task = o}
        firing == {r \in BagToSet(running) : r.task = o /\ r.loop}
    IN  BagCardinality([w \in waiting |-> wakeups[w]])
        + BagCardinality([r \in firing |-> running[r]])
LiveLoops(o) == IF objs[o].enabled THEN LoopsOf(o) ELSE 0
OncePerSlot(o) ==
    \A i, j \in DOMAIN fired[o] :
        (i < j /\ fired[o][i] /= NoSlot) => fired[o][i] /= fired[o][j]

\* C10: every job has at most one live scheduling loop, and its loop has
\* invoked the handler at most once for each value of nextRun.
C10_OneLoopOncePerSlot ==
    \A o \in DOMAIN objs : LiveLoops(o) <= 1 /\ OncePerSlot(o)

----------------------------------------------------------------------------
(* Claims about expiry *)

\* the callback of the timer tm runs in this step
Fires(tm) == BagIn(tm, timers) /\ timers' = timers (-) SetToBag({tm})
\* the entry under the timer's key was written after the timer was set
WrittenAfter(tm) == MapHas(cache, tm.key) /\ MapGet(cache, tm.key).timestamp > tm.setAt

\* C11: when the expiry timer of an earlier set fires, an entry written to its
\* key after that set (by set or appendHourlySnapshot, also after a delete or
\* clear) is still in the store.
C11_TimerSparesNewerEntry ==
    [][\A tm \in BagToSet(timers) :
          (Fires(tm) /\ WrittenAfter(tm)) => MapHas(cache', tm.key)]_vars

\* the TTL the interface promises: the supplied one, else the store's default
EffectiveTtl(ttl) == IF ttl = Undefined THEN defaultTtl ELSE ttl[1]
WrittenAt(k) == MapGet(cache, k).timestamp

C13_SetPresentKeyEvictsNothing ==
    \A k \in Keys, v \in Bodies :
        MapHas(cache, k) =>
            LET after == setEntries(cache, k, Scalar(v), now)
            IN  CacheKeys(cache) \subseteq CacheKeys(after) /\ Len(after) = Len(cache)

\* C14: with a supplied ttl <= 0, get returns every stored value and deletes
\* nothing, and cleanup removes nothing, however old the entries are.
C14_NonPositiveTtlNeverExpires ==
    \A ttl \in TtlArgs :
        (ttl /= Undefined /\ ttl[1] <= 0) =>
            /\ cleanupEntries(cache, ttl, now) = cache
            /\ \A k \in CacheKeys(cache) :
                   /\ getRet(cache, k, ttl, now) = MapGet(cache, k).data
                   /\ getEntries(cache, k, ttl, now) = cache

\* the timers a set call can arm that fall due while the clock still runs
DueTimers ==
    {tm \in [key : Keys, due : 1..MaxNow, setAt : 0..MaxNow] :
        \E ttl \in TtlArgs : ttl /= Undefined /\ ttl[1] > 0 /\ tm.due = tm.setAt + ttl[1]}

\* C15: set with ttl > 0 arms one timer due ttl later, set without ttl or with
\* ttl <= 0 arms none; an armed timer eventually runs, read or not, and when it
\* runs its key leaves the store.
C15_TimedRemoval ==
    /\ [](\A k \in Keys, ttl \in TtlArgs :
             setTimers(timers, k, ttl, now) =
                 IF ttl /= Undefined /\ ttl[1] > 0
                 THEN timers (+) SetToBag({[key |-> k, due |-> now + ttl[1], setAt |-> now]})
                 ELSE timers)
    /\ [][\A tm \in BagToSet(timers) : Fires(tm) => ~MapHas(cache', tm.key)]_vars
    /\ \A tm \in DueTimers : BagIn(tm, timers) ~> ~BagIn(tm, timers)

\* the timer of a set has emptied the store with no call in between
C15_Witness ==
    /\ lastOp.op = "set"
    /\ cache = <<>>
    /\ timers = EmptyBag
    /\ now >= 1

\* a series written by appendHourlySnapshot is stored under the key
HasSeries(c, k) == MapHas(c, k) /\ MapGet(c, k).data.isArray

\* C16: only set arms an expiry timer (appendHourlySnapshot arms none), and a
\* stored series is kept by cleanup, get and has called with the default TTL,
\* whatever its age.
C16_SeriesNeverExpiresByAge ==
    /\ [][BagCardinality(timers') > BagCardinality(timers) => lastOp'.op = "set"]_vars
    /\ [](HasSeries(cache, HistKey) =>
             /\ HasSeries(cleanupEntries(cache, Undefined, now), HistKey)
             /\ getEntries(cache, HistKey, Undefined, now) = cache
             /\ hasRet(cache, HistKey, Undefined, now))

----------------------------------------------------------------------------
(* Claims about concurrent appends and the Persistent Store *)

\* one append applied to a series, as the History Ledger defines it
AppliedTo(h, p) ==
    LastN(IF h /= <<>> /\ HourOf(h[Len(h)].timestamp) = HourOf(p.timestamp)
          THEN Front(h) \o <<p>>
          ELSE h \o <<p>>,
          ClaimedMaxPoints)
\* the call in slot r returns in this step after appending to the series
Appends(r) ==
    /\ calls[r].busy
    /\ ~calls'[r].busy
    /\ TakesSnapshot(calls[r].req, lastRun'.data)
    /\ lastRun'.outcome = "ok"
\* the series the append finds: the cache write of the same call, made just
\* before it, evicts the series when the store is full and the series is its
\* oldest entry
SeriesFound == IF Len(cache) < maxSize \/ cache[1].key /= HistKey THEN series ELSE <<>>

\* C17: every append of a proxy request, whatever other requests are in flight,
\* leaves the series that the append applied to the series it finds gives: the
\* appends take effect one after another, none is lost.
C17_AppendsSerialized ==
    [][\A r \in Slots :
          Appends(r) =>
              existingHistory(cache', HistKey) =
                  AppliedTo(SeriesFound, [timestamp |-> now, value |-> lastRun'.data.v])]_vars

\* two points of different hours are stored while another tracked request is
\* still in flight
C17_Witness ==
    /\ Len(series) = 2
    /\ series[1].value /= series[2].value
    /\ lastRun.fetched
    /\ TakesSnapshot(lastRun.req, lastRun.data)
    /\ \E r \in Slots : calls[r].busy /\ IsTrackedRequest(calls[r].req)

\* the async block that ran in this step, and the row it added
Forwarded(i) ==
    /\ i \in DOMAIN forwards
    /\ forwards' = RemoveAt(forwards, i)
    /\ Len(db') = Len(db) + 1

\* C18: with write-behind enabled, the point an appendHourlySnapshot call
\* forwards to the Persistent Store is the point of that call, whatever
\* appends on the same key run before its async block resumes.
C18_ForwardsOwnPoint ==
    [][\A i \in 1 .. MaxForwards :
           Forwarded(i) =>
               db'[Len(db')] = insertedRow(instrumentOf(forwards[i].key),
                                           forwards[i].p.timestamp, forwards[i].p.value)]_vars

\* the outcomes in which the Persistent Store fails
FailedOutcomes == StoreOutcomes \ {"ok"}

\* C19: a Persistent Store failure never changes the in-memory result. An
\* append stores the series the ledger's rule gives and an async block that
\* ends, in success or failure, leaves the Cache Store as it is; a getHistory
\* whose module load or query fails returns the in-memory-only result, the
\* stored points inside the range sorted by timestamp.
C19_StoreFailureInvisible ==
    /\ [][/\ Len(forwards') > Len(forwards) =>
                 existingHistory(cache', HistKey)
                     = trimHistory(pushOrOverwrite(series, forwards'[Len(forwards')].p))
          /\ Len(forwards') < Len(forwards) => cache' = cache]_vars
    /\ [](\A i \in DOMAIN queries, outcome \in FailedOutcomes :
              historyResults(queries[i], db, outcome)
                  = {memoryHistory(queries[i].items, queries[i].start, queries[i].end)})

\* the points of a sequence, persisted or in memory, that lie inside a query's range
PointsInRange(points, q) == {i \in DOMAIN points : InRange(points[i], q.start, q.end)}
\* the persisted rows of the query's instrument inside its range
RowsInRange(q) ==
    {i \in PointsInRange(db, q) : db[i].instrument = instrumentOf(q.key)}

\* what C20 says of one result of a query
IsMergeOf(history, q) ==
    /\ {history[k].timestamp : k \in DOMAIN history}
           = {db[i].timestamp : i \in RowsInRange(q)}
             \cup {q.items[i].timestamp : i \in PointsInRange(q.items, q)}
    /\ \A a, b \in DOMAIN history : a < b => history[a].timestamp < history[b].timestamp
    /\ \A k \in DOMAIN history :
           IF \E i \in RowsInRange(q) : db[i].timestamp = history[k].timestamp
           THEN \E i \in RowsInRange(q) : /\ db[i].timestamp = history[k].timestamp
                                          /\ db[i].value = history[k].value
           ELSE \E i \in DOMAIN q.items : /\ q.items[i].timestamp = history[k].timestamp
                                          /\ q.items[i].value = history[k].value

\* C20: with persistence enabled and a store that answers, getHistory returns
\* one point for every timestamp that a persisted or an in-memory point
\* inside the range has and no other point, in strictly ascending order of
\* timestamp; the point of a persisted timestamp carries a persisted value,
\* any other an in-memory value.
C20_MergedHistory ==
    \A i \in DOMAIN queries :
        \A history \in historyResults(queries[i], db, "ok") : IsMergeOf(history, queries[i])

\* a getHistory call is suspended while the store and the memory hold
\* different values for a timestamp inside its range, and the memory holds
\* a point inside the range that the store does not
C20_Witness ==
    \E i \in DOMAIN queries :
        LET q == queries[i]
        IN  /\ \E r \in RowsInRange(q), m \in PointsInRange(q.items, q) :
                   /\ db[r].timestamp = q.items[m].timestamp
                   /\ db[r].value /= q.items[m].value
            /\ \E m \in PointsInRange(q.items, q) :
                   \A r \in RowsInRange(q) : db[r].timestamp /= q.items[m].timestamp

----------------------------------------------------------------------------
(* Claims about reading the history and about the Proxy Executor *)

\* how often a point occurs in a sequence
Occurrences(h, p) == Cardinality({i \in DOMAIN h : h[i] = p})

\* the result holds the stored points inside the range, each as often as it
\* is stored, and no other point, in ascending order of timestamp
IsRangeOf(result, stored, range) ==
    /\ \A p \in Range(result) \cup Range(stored) :
           Occurrences(result, p)
               = IF InRange(p, range[1], range[2]) THEN Occurrences(stored, p) ELSE 0
    /\ \A a, b \in DOMAIN result : a < b => result[a].timestamp <= result[b].timestamp

\* C21: without persistence getHistory(key, start, end), of either class,
\* returns the stored points inside the inclusive range sorted by timestamp,
\* nothing for a key without a series, and leaves the stored series as it was.
C21_HistoryRead ==
    \A k \in ReadKeys, range \in ReadRanges :
        LET stored == existingHistory(cache, k)
        IN  /\ IsRangeOf(memoryHistory(stored, range[1], range[2]), stored, range)
            /\ IsRangeOf(syncHistory(cache, k, range[1], range[2]), stored, range)
            /\ existingHistory(syncEntries(cache, k, range[1], range[2]), k) = stored

\* the call in slot r gets its upstream answer in this step and returns
Answered(r) == calls[r].busy /\ ~calls'[r].busy
\* the call in slot r goes to the transport in this step
Sent(r) == ~calls[r].busy /\ calls'[r].busy
\* the cacheDuration the configuration gives the endpoint of a request
ConfiguredDuration(req) == Configs[req.apiName][req.endpoint]
\* the entry stored under a key, NoEntry when there is none
NoEntry == <<>>
EntryOf(c, key) == IF MapHas(c, key) THEN MapGet(c, key) ELSE NoEntry

\* C22: a run stores the response body under the request's cache key, with
\* the endpoint's cacheDuration as TTL, exactly when the upstream call
\* succeeded and that cacheDuration is positive; when it is 0 the run
\* neither reads nor writes the entry of that key and returns only after a
\* transport call.
C22_WritesIffCachingEnabled ==
    [][/\ \A r \in Slots :
             Answered(r) =>
                 LET req == calls[r].req
                     key == cacheKeyOf(req)
                     d == ConfiguredDuration(req)
                 IN  IF lastRun'.outcome = "ok" /\ d > 0
                     THEN /\ EntryOf(cache', key)
                                 = [key |-> key, data |-> lastRun'.data, timestamp |-> now]
                          /\ timers' = timers (+) SetToBag({[key |-> key, due |-> now + d,
                                                             setAt |-> now]})
                     ELSE /\ EntryOf(cache', key) = EntryOf(cache, key)
                          /\ timers' = timers
       /\ \A r \in Slots :
             (Sent(r) /\ ConfiguredDuration(calls'[r].req) = 0) =>
                 cache' = cache /\ lastOp' = lastOp /\ timers' = timers
       /\ (lastRun' /= lastRun /\ lastRun'.outcome = "ok" /\ ~lastRun'.fetched) =>
             ConfiguredDuration(lastRun'.req) > 0]_vars

\* a run of an endpoint with a positive cacheDuration has stored the body it
\* fetched, and a run of an endpoint with cacheDuration 0 is at the transport
C22_Witness ==
    /\ lastRun.outcome = "ok"
    /\ lastRun.fetched
    /\ ConfiguredDuration(lastRun.req) > 0
    /\ EntryOf(cache, cacheKeyOf(lastRun.req)) /= NoEntry
    /\ \E r \in Slots : calls[r].busy /\ ConfiguredDuration(calls[r].req) = 0

\* the request of a run that can be resolved by the configuration
Resolves(req) == HasConfig(req.apiName) /\ HasEndpoint(req.apiName, req.endpoint)

\* C23: a run that fails with ConfigNotFound or TransportError sets no cache
\* entry and appends no history point, and its caller gets the error;
\* ConfigNotFound comes before any cache lookup and any transport call.
C23_FailedRunWritesNothing ==
    [][/\ \A r \in Slots :
             (Answered(r) /\ lastRun'.outcome /= "ok") =>
                 /\ lastRun'.outcome = "TransportError"
                 /\ lastRun'.req = calls[r].req
                 /\ cache' = cache /\ timers' = timers /\ lastOp' = lastOp
                 /\ forwards' = forwards
       /\ (lastRun' /= lastRun /\ lastRun'.outcome = "ConfigNotFound") =>
             /\ ~Resolves(lastRun'.req)
             /\ cache' = cache /\ timers' = timers /\ lastOp' = lastOp
             /\ calls' = calls
       /\ \A r \in Slots : Sent(r) => Resolves(calls'[r].req)
       /\ (lastRun' /= lastRun /\ lastRun'.outcome = "ok") => Resolves(lastRun'.req)]_vars

\* the upstream call of a tracked, cached request has failed while the store
\* holds nothing under its key
C23_Witness ==
    /\ lastRun.outcome = "TransportError"
    /\ IsTrackedRequest(lastRun.req)
    /\ ConfiguredDuration(lastRun.req) > 0
    /\ EntryOf(cache, cacheKeyOf(lastRun.req)) = NoEntry

\* C24: a run whose request lacks a parameter the endpoint declares as
\* required ends with ValidationError before any cache lookup and any
\* transport call, whoever calls it.
C24_RunValidatesParams ==
    [][/\ \A r \in Slots : Sent(r) => validateParams(calls'[r].req)
       /\ (lastRun' /= lastRun /\ lastRun'.outcome = "ok") => validateParams(lastRun'.req)]_vars

\* C25: a run appends a history point exactly when it got a successful
\* answer for forex/quote with instrument XAU in either case; the point goes
\* to 'forex:history:XAU' with the time of the answer and the body, or the
\* first element of a body that is an array, as its value; any other run
\* appends nothing.
C25_SnapshotExactlyForTracked ==
    [][\A r \in Slots :
          Answered(r) =>
              LET req == calls[r].req
                  body == lastRun'.data
                  cached == IF ConfiguredDuration(req) > 0 /\ lastRun'.outcome = "ok"
                            THEN setEntries(cache, cacheKeyOf(req), body, now)
                            ELSE cache
              IN  IF /\ lastRun'.outcome = "ok"
                     /\ req.apiName = "forex" /\ req.endpoint = "quote"
                     /\ Lookup(req.pathParams, "instrument") \in {"XAU", "xau"}
                  THEN existingHistory(cache', HistKey)
                           = trimHistory(pushOrOverwrite(
                                 existingHistory(cached, HistKey),
                                 [timestamp |-> now, value |-> body.v]))
                  ELSE EntryOf(cache', HistKey) = EntryOf(cached, HistKey)]_vars

\* C25 as the code has it: a run appends a history point exactly when it got
\* a successful answer for forex/quote with instrument XAU in either case and
\* the body, or the first element of a body that is an array, is truthy; the
\* point goes to 'forex:history:XAU' with the time of the answer and that
\* value. A successful answer of 0, "", false, null or an empty array, and
\* any other run, appends nothing.
C25_SnapshotWhenTruthy ==
    [][\A r \in Slots :
          Answered(r) =>
              LET req == calls[r].req
                  body == lastRun'.data
                  cached == IF ConfiguredDuration(req) > 0 /\ lastRun'.outcome = "ok"
                            THEN setEntries(cache, cacheKeyOf(req), body, now)
                            ELSE cache
              IN  IF /\ lastRun'.outcome = "ok"
                     /\ req.apiName = "forex" /\ req.endpoint = "quote"
                     /\ Lookup(req.pathParams, "instrument") \in {"XAU", "xau"}
                     /\ body.v \notin {"0", "", "false", "null", "undefined"}
                  THEN existingHistory(cache', HistKey)
                           = trimHistory(pushOrOverwrite(
                                 existingHistory(cached, HistKey),
                                 [timestamp |-> now, value |-> body.v]))
                  ELSE EntryOf(cache', HistKey) = EntryOf(cached, HistKey)]_vars

\* the series ends with the first element of an array body, and the answer 0
\* to a later request for 'xau' has left it alone
C25_Witness ==
    /\ series /= <<>>
    /\ lastPoint.value = "b"
    /\ lastRun.outcome = "ok"
    /\ lastRun.fetched
    /\ lastRun.data = Scalar("0")
    /\ Lookup(lastRun.req.pathParams, "instrument") = "xau"

----------------------------------------------------------------------------
(* Claims about the scheduler's timing and stopping *)

\* the finally callback of the loop's invocation r runs in this step
Finishing(r) ==
    /\ BagIn(r, running)
    /\ r.stage = "finally"
    /\ CopiesIn(r, running') < CopiesIn(r, running)

\* C26: after a firing the job's nextRun is recomputed with the rule the job
\* was added with: the start of the next hour for a job added with
\* alignToHour and an interval of an hour or more, now + intervalMs for any
\* other job.
C26_RecomputedByOriginalRule ==
    [][\A r \in BagToSet(running) :
          (Finishing(r) /\ objs[r.task].enabled) =>
              objs'[r.task].nextRun =
                  IF objs[r.task].aligned
                  THEN NextHour(now)
                  ELSE now + objs[r.task].intervalMs]_vars

\* the task object created in this step
Added(o) == o = Len(objs) + 1 /\ Len(objs') = o

\* C27: addTask with alignToHour and an interval of an hour or more sets the
\* first nextRun to the start of the next hour strictly after now; any other
\* addTask sets it to now + intervalMs.
C27_InitialNextRun ==
    [][\A o \in 1 .. MaxObjs :
          Added(o) =>
              LET task == objs'[o]
              IN  IF task.aligned
                  THEN /\ task.nextRun % HourMs = 0
                       /\ task.nextRun > now
                       /\ task.nextRun - now <= HourMs
                  ELSE task.nextRun = now + task.intervalMs]_vars

\* a job added with alignToHour has not run yet and is due at the start of
\* the next hour, half an hour from now
C27_Witness ==
    \E o \in DOMAIN objs :
        /\ objs[o].aligned
        /\ objs[o].lastRun = Undefined
        /\ objs[o].nextRun = HourMs
        /\ now = HalfHour
        /\ fired[o] = <<>>

\* the wake-up w of a scheduling loop is armed in this step
Armed(w) == CopiesIn(w, wakeups') > CopiesIn(w, wakeups)
\* what is left until the task's nextRun after the step
Remaining(o) == objs'[o].nextRun - now'

\* what may be left until nextRun when the loop checks: overdue, due, and
\* below, at and above the longest wait
WaitCases == {0 - 1, 0, 1, CheckMs \div 2, CheckMs, CheckMs + 1}

\* C28: the scheduling loop invokes a job's handler only when nextRun - now <= 0,
\* and otherwise arms its next check after the remaining time or after 60000 ms,
\* whichever is shorter, never after a longer wait; in every step of the
\* scheduler, and for a check of the loop at each time around nextRun.
C28_FiresOnlyWhenDue ==
    /\ [][/\ \A o \in DOMAIN objs : Invoked(o) => Remaining(o) <= 0
          /\ \A w \in BagToSet(wakeups') :
                 Armed(w) =>
                     /\ Remaining(w.task) > 0
                     /\ w.due - now' <= Remaining(w.task)
                     /\ w.due - now' <= CheckMs
                     /\ w.due - now' \in {Remaining(w.task), CheckMs}]_vars
    /\ [](\A o \in DOMAIN objs, left \in WaitCases :
              objs[o].enabled =>
                  LET t == objs[o].nextRun - left
                      checked == scheduleNextRun(Sched, o, t)
                      wait == IF left <= CheckMs THEN left ELSE CheckMs
                  IN  IF left <= 0
                      THEN /\ Len(checked.fired[o]) = Len(fired[o]) + 1
                           /\ checked.wakeups = wakeups
                      ELSE /\ checked.fired = fired
                           /\ checked.wakeups =
                                  wakeups (+) SetToBag({[task |-> o, due |-> t + wait]}))

\* the loop of a job has invoked the handler for its first nextRun, and has
\* just armed a check 60000 ms ahead while more than that remains
C28_Witness ==
    \E o \in DOMAIN objs :
        /\ Len(fired[o]) >= 1
        /\ fired[o][1] /= NoSlot
        /\ fired[o][1] < objs[o].nextRun
        /\ objs[o].nextRun - now > CheckMs
        /\ \E w \in BagToSet(wakeups) : w.task = o /\ w.due = now + CheckMs

\* the task object registered under its id
Registered(o) == tasks[objs[o].id] = o

\* C29: from stopTask(id) until startTask goes through for the id again, the
\* handler of the registered job is not invoked, whatever wake-up or completion
\* is pending: every invocation happens while the id is marked as started, or in
\* the step that marks it; and stopTask keeps the registration, lastRun and
\* errorCount, starts nothing, and leaves the job disabled and unmarked.
C29_StoppedUntilStarted ==
    /\ [][\A o \in DOMAIN objs :
              (Registered(o) /\ Invoked(o)) =>
                  /\ objs[o].id \in intervals'
                  /\ objs[o].id \in intervals \/ Restarted(o)]_vars
    /\ [](\A id \in TaskIds :
              LET halted == stopTaskIn(Sched, id)
                  o == tasks[id]
              IN  /\ halted.tasks = tasks
                  /\ halted.fired = fired
                  /\ halted.running = running
                  /\ halted.wakeups = wakeups
                  /\ id \notin halted.intervals
                  /\ o /= NoTask =>
                        /\ ~halted.objs[o].enabled
                        /\ halted.objs[o].lastRun = objs[o].lastRun
                        /\ halted.objs[o].errorCount = objs[o].errorCount
                        /\ \A w \in BagToSet(wakeups) :
                               w.task = o =>
                                   scheduleNextRun(halted, o, objs[o].nextRun) = halted)

\* a job that was started and then stopped before its first invocation is past
\* its nextRun with the wake-up of its loop due, and has not been invoked
C29_Witness ==
    \E o \in DOMAIN objs :
        /\ Registered(o)
        /\ ~objs[o].enabled
        /\ objs[o].id \notin intervals
        /\ fired[o] = <<>>
        /\ objs[o].nextRun <= now
        /\ \E w \in BagToSet(wakeups) : w.task = o /\ w.due <= now

\* C30: a call of stop() halts every job that has a live scheduling loop,
\* however the loop was started: in what the call leaves, no enabled job has a
\* wake-up pending or an invocation of its loop that will reschedule.
C30_StopHaltsEveryLoop ==
    \A o \in DOMAIN objs :
        stopped.objs[o].enabled =>
            /\ \A w \in BagToSet(stopped.wakeups) : w.task /= o
            /\ \A r \in BagToSet(stopped.running) : ~(r.task = o /\ r.loop)

----------------------------------------------------------------------------
(* Claims about the hourly collector, cleanup and the cache keys *)

\* a tick of the collector completes without error in this step: its
\* proxyRequest returns at once, or the response it was waiting for arrives
CollectionCompletes ==
    \/ /\ nextCollect /= NoTimer
       /\ nextCollect' /= nextCollect
       /\ ~calls[CollectorSlot].busy
       /\ ~calls'[CollectorSlot].busy
       /\ lastRun'.outcome = "ok"
    \/ /\ calls[CollectorSlot].busy
       /\ ~calls'[CollectorSlot].busy
       /\ lastRun'.outcome = "ok"
PointInHour(c, hour) ==
    /\ storesArray(c, HistKey)
    /\ \E i \in DOMAIN MapGet(c, HistKey).data.items :
           HourOf(MapGet(c, HistKey).data.items[i].timestamp) = hour

\* C31: after every tick of the hourly collector whose collection completes
\* without error, the series forex:history:XAU holds a point whose timestamp
\* lies in the hour of the tick, whatever the cache held at the tick.
C31_TickLeavesPoint ==
    [][CollectionCompletes => PointInHour(cache', HourOf(now'))]_vars

\* the entry is older than the effective TTL, and an effective TTL <= 0 never
\* expires an entry
PastTtl(e, ttl) == EffectiveTtl(ttl) > 0 /\ now - e.timestamp > EffectiveTtl(ttl)

\* C32: cleanup(ttl) deletes exactly the entries whose age exceeds the effective
\* TTL (the ttl supplied, or the default), returns how many it deleted, and
\* leaves every other entry as it was.
C32_CleanupByAge ==
    [][\A ttl \in TtlArgs :
           cleanup(ttl) =>
               /\ cache' = SelectSeq(cache, LAMBDA e : ~PastTtl(e, ttl))
               /\ lastOp'.count =
                      Cardinality({i \in DOMAIN cache : PastTtl(cache[i], ttl)})]_vars

\* the arguments of a generateKey call, and the calls over the same arguments
KeyArgs == KeyApiNames \X KeyEndpoints \X KeyParams \X KeyParams
keyOf(a) == generateKey(a[1], a[2], a[3], a[4])
\* the same names, and maps that hold the same key/value pairs
SameContents(a, b) ==
    /\ a[1] = b[1]
    /\ a[2] = b[2]
    /\ Range(a[3]) = Range(b[3])
    /\ Range(a[4]) = Range(b[4])

\* C33: generateKey depends only on the names and on the key/value pairs of the
\* two parameter maps: the key a call returns is the key of every argument
\* tuple with the same contents, whatever the order of the keys in its maps.
C33_KeyIgnoresOrder ==
    lastOp.op = "generateKey" =>
        \A b \in KeyArgs : SameContents(lastOp.args, b) => keyOf(b) = lastOp.ret.v

\* C34: generateKey is collision-free: the key a call returns is the key of no
\* argument tuple that differs from the call's in a name or in the contents of
\* a map.
C34_KeysDistinct ==
    lastOp.op = "generateKey" =>
        \A b \in KeyArgs : ~SameContents(lastOp.args, b) => keyOf(b) /= lastOp.ret.v

----------------------------------------------------------------------------
(* Claims about the series as an entry of the bounded store *)

\* keys that no call has stored yet
FreshKeys == <<"n1", "n2", "n3", "n4">>
\* the entries after set() calls on the keys ks, in their order
RECURSIVE SetEach(_, _)
SetEach(c, ks) ==
    IF ks = <<>> THEN c
    ELSE SetEach(setEntries(c, Head(ks), Scalar("a"), now), Tail(ks))
\* the series is the newest entry: no key has been added since it was created
SeriesNewest(c) == c /= <<>> /\ c[Len(c)].key = HistKey /\ storesArray(c, HistKey)

\* C35: the series is an ordinary entry whose place in the eviction order is
\* that of its creation: appendHourlySnapshot on a stored series moves no
\* entry; once maxSize new keys have been set after its creation the series
\* has been evicted; and an append that finds no series stores a series that
\* holds only the appended point.
C35_SeriesEvictedInTurn ==
    \A v \in Bodies :
        LET p == [timestamp |-> now, value |-> v]
            appended == appendEntries(cache, HistKey, p, now)
        IN  /\ storesArray(cache, HistKey) => KeySeq(appended) = KeySeq(cache)
            /\ SeriesNewest(cache) =>
                  ~MapHas(SetEach(cache, SubSeq(FreshKeys, 1, maxSize)), HistKey)
            /\ ~MapHas(cache, HistKey) =>
                  MapGet(appended, HistKey).data = ArrayOf(<<p>>)

\* C38: for an endpoint with cacheDuration d > 0, two transport calls for the
\* same cache key are never started less than d apart: calls that overlap are
\* served by one transport call. The clock starts at 0, so any two calls in
\* flight before d have started less than d apart.
C38_OneTransportCallPerKey ==
    \A r, q \in Slots :
        ( /\ r /= q
          /\ calls[r].busy
          /\ calls[q].busy
          /\ cacheKeyOf(calls[r].req) = cacheKeyOf(calls[q].req)
          /\ cacheDurationOf(calls[r].req) > 0 ) =>
            now >= cacheDurationOf(calls[r].req)

----------------------------------------------------------------------------
(* Claims about restarting jobs and about jobs over time *)

\* C36: every job has 0 <= errorCount <= maxErrors in every state, also after a
\* job that the circuit breaker disabled is started again and fails again.
C36_ErrorCountWithinMax ==
    \A o \in DOMAIN objs :
        objs[o].errorCount >= 0 /\ objs[o].errorCount <= objs[o].maxErrors

\* what start() leaves when it is called right after stop()
restarted == startAll(stopped, {id \in TaskIds : tasks[id] /= NoTask}, now)

\* C37: stop() followed by start() resumes scheduling: every registered job
\* that was enabled with a live scheduling loop before the stop is enabled,
\* marked as started and has a live loop after the start.
C37_StopStartResumes ==
    \A o \in DOMAIN objs :
        (Registered(o) /\ LiveLoops(o) >= 1) =>
            /\ restarted.objs[o].enabled
            /\ objs[o].id \in restarted.intervals
            /\ \/ \E w \in BagToSet(restarted.wakeups) : w.task = o
               \/ \E r \in BagToSet(restarted.running) : r.task = o /\ r.loop

\* the last invocation of the task object was made by its scheduling loop
FiredByLoop(o) == fired[o] /= <<>> /\ fired[o][Len(fired[o])] /= NoSlot

\* C39: the scheduling loop of a job with an interval of two hours or more
\* never fires in two consecutive hours: each firing starts at least intervalMs
\* after the start of the previous one, less at most the time the previous one
\* started into its hour.
C39_LongIntervalKept ==
    [][\A o \in DOMAIN objs :
           (Invoked(o) /\ objs[o].intervalMs >= 2 * HourMs /\ FiredByLoop(o)) =>
               LET previous == objs[o].lastRun[1]
               IN  /\ now' - previous >= objs[o].intervalMs - (previous % HourMs)
                   /\ HourOf(now') > HourOf(previous) + 1]_vars

\* where the clock of the scheduler scenarios stops
LastTime == MaxHours * HourMs
\* the job has been started and not stopped: it is enabled and its loop is
\* waiting for a wake-up or for the handler it has invoked
Started(o) == o \in DOMAIN objs /\ LiveLoops(o) >= 1

\* C40: with time passing, due wake-ups running and handlers settling, a
\* started job that is not disabled by the circuit breaker keeps firing: after
\* every firing of its loop a nextRun later than the one fired for, and later
\* than now, is computed, and whenever that nextRun lies within the time the
\* clock runs the handler is eventually invoked again.
C40_FiresAgain ==
    /\ [][\A r \in BagToSet(running) :
              (Finishing(r) /\ objs[r.task].enabled) =>
                  /\ objs'[r.task].nextRun > r.slot
                  /\ objs'[r.task].nextRun > now']_vars
    /\ \A o \in 1 .. MaxObjs, n \in 0 .. (MaxRuns - 1) :
           (Started(o) /\ Len(fired[o]) = n)
               ~> (o \in DOMAIN objs /\ \/ Len(fired[o]) > n
                                        \/ ~objs[o].enabled
                                        \/ objs[o].nextRun > LastTime)

\* a started job has been fired twice by its loop, for two values of nextRun,
\* and is still enabled
C40_Witness ==
    \E o \in DOMAIN objs :
        /\ Started(o)
        /\ Len(fired[o]) >= 2
        /\ fired[o][1] /= NoSlot
        /\ fired[o][2] > fired[o][1]

====
